---------------------------- MODULE Spec2Model ----------------------------
(***************************************************************************)
(* PicoBoot firmware generator: the DOL -> scramble -> IPLBOOT framing ->  *)
(* UF2 encode -> UF2 merge pipeline and the build store that drives it.    *)
(*                                                                         *)
(* Byte buffers (Uint8Array) are sequences over 0..255; a JavaScript       *)
(* offset k is index k+1 here.  A function that can throw returns a record *)
(* [ok |-> TRUE, ...] or [ok |-> FALSE, err |-> <message>].                *)
(***************************************************************************)
EXTENDS Integers, Sequences, FiniteSets, TLC

VARIABLES
    \* ---- build store (src/src/stores/build.ts) ----
    picobootVersion, platform, payloadVersion,
    isBuilding, buildProgress, buildSteps,
    firmwareData, firmwareChecksum, firmwareDownloadUrl, firmwareFilename,
    calls,      \* the in-flight invocations of buildFirmware: position and locals
    toasts,     \* the toasts shown so far (vue-sonner)
    release,    \* what the release server holds: base UF2 asset and DOL in the ZIP
    \* ---- the function under test in the pure-function specifications ----
    fnIn, fnOut, fnPc

storeVars == <<picobootVersion, platform, payloadVersion, isBuilding, buildProgress,
               buildSteps, firmwareData, firmwareChecksum, firmwareDownloadUrl,
               firmwareFilename, calls, toasts, release>>
fnVars == <<fnIn, fnOut, fnPc>>
vars == <<storeVars, fnVars>>

-----------------------------------------------------------------------------
(* Bounds of the model *)

\* longest byte sequence handed to scramble in SpecScramble
MaxLen == 3

\* the byte values the inputs of the pure-function specifications are drawn from
SampleBytes == {0, 1, 128, 255}

\* most UF2 blocks in a stream handed to mergeUF2 in SpecMerge
MaxBlocks == 2

-----------------------------------------------------------------------------
(* Bytes and 32-bit words *)

Byte == 0..255

Zeros(n) == [i \in 1..n |-> 0]

\* Uint8Array.prototype.slice(from, to) with 0 <= from; to is clamped to the length
SliceBytes(b, from, to) ==
    LET hi == IF to > Len(b) THEN Len(b) ELSE to
    IN  IF from >= hi THEN <<>> ELSE [i \in 1..(hi - from) |-> b[from + i]]

\* typedArray.set(src, offset): copy src into dst starting at JavaScript offset
SetBytes(dst, src, offset) ==
    [i \in 1..Len(dst) |->
        IF i > offset /\ i <= offset + Len(src) THEN src[i - offset] ELSE dst[i]]

RECURSIVE XorBits(_, _, _)
\* bitwise XOR of two n-bit naturals (the JavaScript ^ on values below 2^n)
XorBits(a, b, n) ==
    IF n = 0 THEN 0
    ELSE ((a + b) % 2) + 2 * XorBits(a \div 2, b \div 2, n - 1)

SeqsUpTo(S, n) == UNION {[1..k -> S] : k \in 0..n}

MinOf(S) == CHOOSE x \in S : \A y \in S : x <= y

(* A JavaScript number that may exceed 2^31 - 1 (a 32-bit field, or a sum of two)
   is the pair <<hi, lo>> standing for hi * 65536 + lo, with lo in 0..65535. *)
W(n) == <<n \div 65536, n % 65536>>

WAdd(a, b) == <<a[1] + b[1] + ((a[2] + b[2]) \div 65536), (a[2] + b[2]) % 65536>>

WLt(a, b) == a[1] < b[1] \/ (a[1] = b[1] /\ a[2] < b[2])

WLe(a, b) == a = b \/ WLt(a, b)

WMin(S) == CHOOSE x \in S : \A y \in S : WLe(x, y)

WMax(S) == CHOOSE x \in S : \A y \in S : WLe(y, x)

\* DataView.getUint32(offset, littleEndian = true)
GetUint32LE(b, offset) ==
    <<b[offset + 4] * 256 + b[offset + 3], b[offset + 2] * 256 + b[offset + 1]>>

\* DataView.getUint32(offset, littleEndian = false)
GetUint32BE(b, offset) ==
    <<b[offset + 1] * 256 + b[offset + 2], b[offset + 3] * 256 + b[offset + 4]>>

\* the four bytes DataView.setUint32(offset, w, true) writes (w modulo 2^32)
BytesLE(w) == <<w[2] % 256, w[2] \div 256, w[1] % 256, (w[1] \div 256) % 256>>

\* the four bytes DataView.setUint32(offset, w, false) writes (w modulo 2^32)
BytesBE(w) == <<(w[1] \div 256) % 256, w[1] % 256, w[2] \div 256, w[2] % 256>>

Ok(v) == [ok |-> TRUE, val |-> v]

\* throw new Error(msg with the interpolated values args)
Throw(msg, args) == [ok |-> FALSE, err |-> [msg |-> msg, args |-> args]]

-----------------------------------------------------------------------------
(* Scrambler: src/src/lib/firmware/scrambler.ts *)

PREPEND_SIZE == 1824

\* result[it] += acc in place of the exclusive or
XorIntoResultAdd(result, it, acc) ==
    [result EXCEPT ![it + 1] = (@ + acc) % 256]

\* result[it] ^= acc
XorIntoResult(result, it, acc) ==
    [result EXCEPT ![it + 1] = XorBits(@, acc, 8)]

\* locals of applyShiftRegisterScrambling before the loop
scrambleLoopInit(data) ==
    [result |-> data, acc |-> 0, nacc |-> 0,
     t |-> 10579, u |-> 55746, v |-> 16369, x |-> 1, it |-> 0]

\* a loop body that feeds the byte it wrote back into x
scrambleIterationFeedback(s) ==
    LET t0 == s.t % 2
        t1 == (s.t \div 2) % 2
        u0 == s.u % 2
        u1 == (s.u \div 2) % 2
        v0 == s.v % 2
        xa == (s.x + t1 + v0) % 2
        xb == (xa + (IF u0 = 1 \/ u1 = 1 THEN 1 ELSE 0)) % 2
        xc == (xb + (((t0 + u1 + v0) % 2) * ((t0 + u0) % 2))) % 2
        nv == IF t0 = u0
              THEN (IF v0 = 1 THEN XorBits(s.v \div 2, 46032, 16) ELSE s.v \div 2)
              ELSE s.v
        nu == IF t0 = 0
              THEN (IF u0 = 1 THEN XorBits(s.u \div 2, 64272, 16) ELSE s.u \div 2)
              ELSE s.u
        nt == IF t0 = 1 THEN XorBits(s.t \div 2, 42816, 16) ELSE s.t \div 2
        nacc == (s.nacc + 1) % 256
        acc == (s.acc * 2 + xc) % 256
        written == XorIntoResult(s.result, s.it, acc)
    IN  IF nacc = 8
        THEN [result |-> written, acc |-> acc, nacc |-> 0,
              t |-> nt, u |-> nu, v |-> nv, x |-> (xc + written[s.it + 1]) % 2,
              it |-> s.it + 1]
        ELSE [result |-> s.result, acc |-> acc, nacc |-> nacc,
              t |-> nt, u |-> nu, v |-> nv, x |-> xc, it |-> s.it]

\* a loop body whose accumulator is not reduced modulo 256
scrambleIterationWideAcc(s) ==
    LET t0 == s.t % 2
        t1 == (s.t \div 2) % 2
        u0 == s.u % 2
        u1 == (s.u \div 2) % 2
        v0 == s.v % 2
        xa == (s.x + t1 + v0) % 2
        xb == (xa + (IF u0 = 1 \/ u1 = 1 THEN 1 ELSE 0)) % 2
        xc == (xb + (((t0 + u1 + v0) % 2) * ((t0 + u0) % 2))) % 2
        nv == IF t0 = u0
              THEN (IF v0 = 1 THEN XorBits(s.v \div 2, 46032, 16) ELSE s.v \div 2)
              ELSE s.v
        nu == IF t0 = 0
              THEN (IF u0 = 1 THEN XorBits(s.u \div 2, 64272, 16) ELSE s.u \div 2)
              ELSE s.u
        nt == IF t0 = 1 THEN XorBits(s.t \div 2, 42816, 16) ELSE s.t \div 2
        nacc == (s.nacc + 1) % 256
        acc == (s.acc * 2 + xc) % 65536
    IN  IF nacc = 8
        THEN [result |-> XorIntoResult(s.result, s.it, acc % 256), acc |-> acc, nacc |-> 0,
              t |-> nt, u |-> nu, v |-> nv, x |-> xc, it |-> s.it + 1]
        ELSE [result |-> s.result, acc |-> acc, nacc |-> nacc,
              t |-> nt, u |-> nu, v |-> nv, x |-> xc, it |-> s.it]

\* one iteration of the while loop of applyShiftRegisterScrambling
scrambleIteration(s) ==
    LET t0 == s.t % 2
        t1 == (s.t \div 2) % 2
        u0 == s.u % 2
        u1 == (s.u \div 2) % 2
        v0 == s.v % 2
        xa == (s.x + t1 + v0) % 2                             \* x ^= t1 ^ v0
        xb == (xa + (IF u0 = 1 \/ u1 = 1 THEN 1 ELSE 0)) % 2  \* x ^= u0 | u1
        xc == (xb + (((t0 + u1 + v0) % 2) * ((t0 + u0) % 2))) % 2
        nv == IF t0 = u0
              THEN (IF v0 = 1 THEN XorBits(s.v \div 2, 46032, 16) ELSE s.v \div 2)
              ELSE s.v
        nu == IF t0 = 0
              THEN (IF u0 = 1 THEN XorBits(s.u \div 2, 64272, 16) ELSE s.u \div 2)
              ELSE s.u
        nt == IF t0 = 1 THEN XorBits(s.t \div 2, 42816, 16) ELSE s.t \div 2
        nacc == (s.nacc + 1) % 256
        acc == (s.acc * 2 + xc) % 256
    IN  IF nacc = 8
        THEN [result |-> XorIntoResult(s.result, s.it, acc), acc |-> acc, nacc |-> 0,
              t |-> nt, u |-> nu, v |-> nv, x |-> xc, it |-> s.it + 1]
        ELSE [result |-> s.result, acc |-> acc, nacc |-> nacc,
              t |-> nt, u |-> nu, v |-> nv, x |-> xc, it |-> s.it]

RECURSIVE scrambleLoop(_, _)
\* while (it < result.length) { ... }, at most n iterations of it (the loop is
\* unrolled by halving so that the evaluation depth stays logarithmic)
scrambleLoop(s, n) ==
    IF n = 0 \/ ~(s.it < Len(s.result)) THEN s
    ELSE IF n = 1 THEN scrambleIteration(s)
    ELSE scrambleLoop(scrambleLoop(s, n \div 2), n - (n \div 2))

\* the loop's locals when the cursor leaves the PREPEND_SIZE zero bytes: the
\* iterations before that read and write result[0..PREPEND_SIZE) only, so this
\* state is the same for every buffer that starts with PREPEND_SIZE zero bytes
\* (scramble, the only caller, passes no other) and is computed once
scrambleLoopAfterPrepend ==
    scrambleLoop(scrambleLoopInit(Zeros(PREPEND_SIZE)), 8 * PREPEND_SIZE)

applyShiftRegisterScrambling(prepended) ==
    LET n == Len(prepended) - PREPEND_SIZE
        s == [scrambleLoopAfterPrepend EXCEPT
                 !.result = @ \o SliceBytes(prepended, PREPEND_SIZE, Len(prepended))]
    IN  scrambleLoop(s, 8 * n + 8).result

\* scramble without its step 3: the prepended bytes are not stripped
scrambleStepsKeepPrepended(data) ==
    applyShiftRegisterScrambling(SetBytes(Zeros(PREPEND_SIZE + Len(data)), data, PREPEND_SIZE))

\* the three steps of scramble
scrambleSteps(data) ==
    LET prepended == SetBytes(Zeros(PREPEND_SIZE + Len(data)), data, PREPEND_SIZE)
        scrambled == applyShiftRegisterScrambling(prepended)
    IN  SliceBytes(scrambled, PREPEND_SIZE, Len(scrambled))

\* one valid DOL file (the one the release scenarios of the build store hold):
\* a header with one text section of 5 bytes, then these 5 bytes; 261 bytes
SampleDol ==
    SetBytes(SetBytes(SetBytes(SetBytes(Zeros(256),
        <<0, 0, 1, 0>>, 0), <<129, 48, 0, 0>>, 72), <<0, 0, 0, 5>>, 144),
        <<129, 48, 0, 0>>, 224) \o <<1, 2, 3, 4, 5>>

\* scrambleSteps on the sample file and on its scrambled form, evaluated once
scrambleMemo ==
    <<[data |-> SampleDol, result |-> scrambleSteps(SampleDol)],
      [data |-> scrambleSteps(SampleDol), result |-> scrambleSteps(scrambleSteps(SampleDol))]>>

\* scramble(data): scrambleSteps(data), looked up where it was evaluated before
scramble(data) ==
    LET known == {i \in DOMAIN scrambleMemo : scrambleMemo[i].data = data}
    IN  IF known = {} THEN scrambleSteps(data) ELSE scrambleMemo[MinOf(known)].result


-----------------------------------------------------------------------------
(* Payload wrapper: src/src/lib/firmware/payload-wrapper.ts *)

ALIGN_SIZE == 4
IPLBOOT_HEADER_SIZE == 32

\* "IPLBOOT " and "PICO" in ASCII
IPLBOOT_MAGIC == <<73, 80, 76, 66, 79, 79, 84, 32>>
PICO_SIGNATURE == <<80, 73, 67, 79>>

\* Math.ceil(n / d) * d
CeilTo(n, d) == ((n + d - 1) \div d) * d

\* createIPLBOOTHeader that writes the size little-endian
createIPLBOOTHeaderLE(size) ==
    SetBytes(SetBytes(Zeros(12), IPLBOOT_MAGIC, 0), BytesLE(W(size)), 8)

createIPLBOOTHeader(size) ==
    SetBytes(SetBytes(Zeros(12), IPLBOOT_MAGIC, 0), BytesBE(W(size)), 8)

\* wrapPayload that writes the signature right after the scrambled bytes
wrapScrambledSignatureUnaligned(scrambled) ==
    LET alignedSize == CeilTo(Len(scrambled), ALIGN_SIZE)
        withSignature == SetBytes(SetBytes(Zeros(alignedSize + 4), scrambled, 0),
                                  PICO_SIGNATURE, Len(scrambled))
        totalImageSize == alignedSize + 4 + IPLBOOT_HEADER_SIZE
        header == createIPLBOOTHeader(totalImageSize)
    IN  [header |-> header, payload |-> withSignature,
         totalSize |-> Len(header) + alignedSize + 4]

\* steps 2 and 3 of wrapPayload, on the scrambled bytes
wrapScrambled(scrambled) ==
    LET alignedSize == CeilTo(Len(scrambled), ALIGN_SIZE)
        withSignature == SetBytes(SetBytes(Zeros(alignedSize + 4), scrambled, 0),
                                  PICO_SIGNATURE, alignedSize)
        totalImageSize == alignedSize + 4 + IPLBOOT_HEADER_SIZE
        header == createIPLBOOTHeader(totalImageSize)
    IN  [header |-> header, payload |-> withSignature,
         totalSize |-> Len(header) + alignedSize + 4]

wrapPayload(data) == wrapScrambled(scramble(data))

\* Uint8Array.prototype.slice(-n): the last n bytes, or all of them
LastBytes(b, n) == SliceBytes(b, IF Len(b) > n THEN Len(b) - n ELSE 0, Len(b))

\* validateWrappedPayload that expects the 32-byte header of the size field
validateWrappedPayloadHeader32(payload) ==
    LET magic == SliceBytes(payload.header, 0, 8)
        sig == LastBytes(payload.payload, 4)
        expectedTotal == Len(payload.header) + Len(payload.payload)
    IN  IF magic # IPLBOOT_MAGIC
        THEN Throw("Invalid IPLBOOT header magic", <<magic>>)
        ELSE IF Len(payload.header) # IPLBOOT_HEADER_SIZE
        THEN Throw("Invalid header size", <<Len(payload.header)>>)
        ELSE IF sig # PICO_SIGNATURE
        THEN Throw("Invalid PICO signature", <<sig>>)
        ELSE IF payload.totalSize # expectedTotal
        THEN Throw("Total size mismatch", <<payload.totalSize, expectedTotal>>)
        ELSE Ok(<<>>)

\* the decoded text of at most 8 bytes equals an ASCII literal of that length
\* exactly when the bytes are the literal's bytes
validateWrappedPayload(payload) ==
    LET magic == SliceBytes(payload.header, 0, 8)
        sig == LastBytes(payload.payload, 4)
        expectedTotal == Len(payload.header) + Len(payload.payload)
    IN  IF magic # IPLBOOT_MAGIC
        THEN Throw("Invalid IPLBOOT header magic", <<magic>>)
        ELSE IF Len(payload.header) # 12
        THEN Throw("Invalid header size", <<Len(payload.header)>>)
        ELSE IF sig # PICO_SIGNATURE
        THEN Throw("Invalid PICO signature", <<sig>>)
        ELSE IF payload.totalSize # expectedTotal
        THEN Throw("Total size mismatch", <<payload.totalSize, expectedTotal>>)
        ELSE Ok(<<>>)

-----------------------------------------------------------------------------
(* DOL parser: src/src/lib/firmware/dol-parser.ts *)

DOL_HEADER_SIZE == 256
DOL_MAX_SIZE == 5242880
\* 0x81300000
EXPECTED_ENTRY_POINT == <<33072, 0>>
TEXT_SECTION_COUNT == 7
DATA_SECTION_COUNT == 11

readU32Array(view, offset, count) ==
    [i \in 1..count |-> GetUint32BE(view, offset + (i - 1) * 4)] \o <<>>

\* parseDOLHeader whose all-zeros test also looks at the section sizes
parseDOLHeaderSizesToo(data) ==
    IF Len(data) < DOL_HEADER_SIZE
    THEN Throw("DOL file too small", <<Len(data), DOL_HEADER_SIZE>>)
    ELSE LET textOffsets == readU32Array(data, 0, TEXT_SECTION_COUNT)
             dataOffsets == readU32Array(data, 28, DATA_SECTION_COUNT)
             textAddresses == readU32Array(data, 72, TEXT_SECTION_COUNT)
             textSizes == readU32Array(data, 144, TEXT_SECTION_COUNT)
             dataSizes == readU32Array(data, 172, DATA_SECTION_COUNT)
             entryPoint == GetUint32BE(data, 224)
             isAllZeros == /\ \A i \in 1..TEXT_SECTION_COUNT : textOffsets[i] = W(0)
                           /\ \A i \in 1..DATA_SECTION_COUNT : dataOffsets[i] = W(0)
                           /\ \A i \in 1..TEXT_SECTION_COUNT : textAddresses[i] = W(0)
                           /\ \A i \in 1..TEXT_SECTION_COUNT : textSizes[i] = W(0)
                           /\ \A i \in 1..DATA_SECTION_COUNT : dataSizes[i] = W(0)
                           /\ entryPoint = W(0)
         IN  IF isAllZeros THEN Throw("Invalid DOL header: all zeros", <<>>)
             ELSE Ok([textOffsets |-> textOffsets,
                      dataOffsets |-> dataOffsets,
                      textAddresses |-> textAddresses,
                      dataAddresses |-> readU32Array(data, 100, DATA_SECTION_COUNT),
                      textSizes |-> textSizes,
                      dataSizes |-> dataSizes,
                      bssAddress |-> GetUint32BE(data, 216),
                      bssSize |-> GetUint32BE(data, 220),
                      entryPoint |-> entryPoint])

parseDOLHeader(data) ==
    IF Len(data) < DOL_HEADER_SIZE
    THEN Throw("DOL file too small", <<Len(data), DOL_HEADER_SIZE>>)
    ELSE LET textOffsets == readU32Array(data, 0, TEXT_SECTION_COUNT)
             dataOffsets == readU32Array(data, 28, DATA_SECTION_COUNT)
             textAddresses == readU32Array(data, 72, TEXT_SECTION_COUNT)
             entryPoint == GetUint32BE(data, 224)
             isAllZeros == /\ \A i \in 1..TEXT_SECTION_COUNT : textOffsets[i] = W(0)
                           /\ \A i \in 1..DATA_SECTION_COUNT : dataOffsets[i] = W(0)
                           /\ \A i \in 1..TEXT_SECTION_COUNT : textAddresses[i] = W(0)
                           /\ entryPoint = W(0)
         IN  IF isAllZeros THEN Throw("Invalid DOL header: all zeros", <<>>)
             ELSE Ok([textOffsets |-> textOffsets,
                      dataOffsets |-> dataOffsets,
                      textAddresses |-> textAddresses,
                      dataAddresses |-> readU32Array(data, 100, DATA_SECTION_COUNT),
                      textSizes |-> readU32Array(data, 144, TEXT_SECTION_COUNT),
                      dataSizes |-> readU32Array(data, 172, DATA_SECTION_COUNT),
                      bssAddress |-> GetUint32BE(data, 216),
                      bssSize |-> GetUint32BE(data, 220),
                      entryPoint |-> entryPoint])

validateSection(offset, size, fileSize, name) ==
    IF WLt(W(fileSize), WAdd(offset, size))
    THEN Throw("Section offset out of bounds", <<name, offset, size, fileSize>>)
    ELSE Ok(<<>>)

\* the non-empty sections in the order checkOverlappingSections collects them
collectSections(header) ==
    LET all == [i \in 1..(TEXT_SECTION_COUNT + DATA_SECTION_COUNT) |->
                  IF i <= TEXT_SECTION_COUNT
                  THEN [offset |-> header.textOffsets[i], size |-> header.textSizes[i],
                        name |-> <<"Text", i - 1>>]
                  ELSE [offset |-> header.dataOffsets[i - TEXT_SECTION_COUNT],
                        size |-> header.dataSizes[i - TEXT_SECTION_COUNT],
                        name |-> <<"Data", i - TEXT_SECTION_COUNT - 1>>]]
    IN  SelectSeq(all, LAMBDA sec : sec.size # W(0))

RECURSIVE insertByOffset(_, _)
insertByOffset(sorted, sec) ==
    IF sorted = <<>> THEN <<sec>>
    ELSE IF WLt(sec.offset, Head(sorted).offset) THEN <<sec>> \o sorted
    ELSE <<Head(sorted)>> \o insertByOffset(Tail(sorted), sec)

RECURSIVE sortByOffset(_)
\* sections.sort((a, b) => a.offset - b.offset): ascending and stable
sortByOffset(sections) ==
    IF sections = <<>> THEN <<>>
    ELSE insertByOffset(sortByOffset(SubSeq(sections, 1, Len(sections) - 1)),
                        sections[Len(sections)])

\* the adjacent-pair loop that reports a pair only when the next section
\* starts after the current one
checkAdjacentStrictStart(sections) ==
    LET bad == {i \in 1..(Len(sections) - 1) :
                  /\ WLt(sections[i].offset, sections[i + 1].offset)
                  /\ WLt(sections[i + 1].offset, WAdd(sections[i].offset, sections[i].size))}
    IN  IF bad = {} THEN Ok(<<>>)
        ELSE Throw("Overlapping sections",
                   <<sections[MinOf(bad)].name, sections[MinOf(bad) + 1].name>>)

\* the adjacent-pair loop of checkOverlappingSections, on the sorted sections
checkAdjacent(sections) ==
    LET bad == {i \in 1..(Len(sections) - 1) :
                  WLt(sections[i + 1].offset, WAdd(sections[i].offset, sections[i].size))}
    IN  IF bad = {} THEN Ok(<<>>)
        ELSE Throw("Overlapping sections",
                   <<sections[MinOf(bad)].name, sections[MinOf(bad) + 1].name>>)

checkOverlappingSections(header) == checkAdjacent(sortByOffset(collectSections(header)))

\* validateDOL that looks at the entry point and load address before the size
validateDOLSizeEntryFirst(header, byteLength) ==
    LET secs == collectSections(header)
        bounds == [i \in 1..Len(secs) |->
                     validateSection(secs[i].offset, secs[i].size, byteLength, secs[i].name)]
        badBounds == {i \in 1..Len(secs) : ~bounds[i].ok}
    IN  IF header.entryPoint # EXPECTED_ENTRY_POINT
        THEN Throw("Invalid entry point", <<header.entryPoint, EXPECTED_ENTRY_POINT>>)
        ELSE IF header.textAddresses[1] # EXPECTED_ENTRY_POINT
        THEN Throw("Invalid load address", <<header.textAddresses[1], EXPECTED_ENTRY_POINT>>)
        ELSE IF byteLength > DOL_MAX_SIZE
        THEN Throw("DOL file too large", <<byteLength, DOL_MAX_SIZE>>)
        ELSE IF badBounds # {} THEN bounds[MinOf(badBounds)]
        ELSE checkOverlappingSections(header)

\* validateDOL without the check of the file size
validateDOLSizeUnbounded(header, byteLength) ==
    LET secs == collectSections(header)
        bounds == [i \in 1..Len(secs) |->
                     validateSection(secs[i].offset, secs[i].size, byteLength, secs[i].name)]
        badBounds == {i \in 1..Len(secs) : ~bounds[i].ok}
    IN  IF header.entryPoint # EXPECTED_ENTRY_POINT
        THEN Throw("Invalid entry point", <<header.entryPoint, EXPECTED_ENTRY_POINT>>)
        ELSE IF header.textAddresses[1] # EXPECTED_ENTRY_POINT
        THEN Throw("Invalid load address", <<header.textAddresses[1], EXPECTED_ENTRY_POINT>>)
        ELSE IF badBounds # {} THEN bounds[MinOf(badBounds)]
        ELSE checkOverlappingSections(header)

\* validateDOL reads data.byteLength only
validateDOLSize(header, byteLength) ==
    LET secs == collectSections(header)
        bounds == [i \in 1..Len(secs) |->
                     validateSection(secs[i].offset, secs[i].size, byteLength, secs[i].name)]
        badBounds == {i \in 1..Len(secs) : ~bounds[i].ok}
    IN  IF byteLength > DOL_MAX_SIZE
        THEN Throw("DOL file too large", <<byteLength, DOL_MAX_SIZE>>)
        ELSE IF header.entryPoint # EXPECTED_ENTRY_POINT
        THEN Throw("Invalid entry point", <<header.entryPoint, EXPECTED_ENTRY_POINT>>)
        ELSE IF header.textAddresses[1] # EXPECTED_ENTRY_POINT
        THEN Throw("Invalid load address", <<header.textAddresses[1], EXPECTED_ENTRY_POINT>>)
        ELSE IF badBounds # {} THEN bounds[MinOf(badBounds)]
        ELSE checkOverlappingSections(header)

validateDOL(header, data) == validateDOLSize(header, Len(data))

\* byte k (from 0) of a file held as its first bytes and its byteLength: the
\* bytes after the held ones follow a fixed pattern
FileByte(file, k) == IF k < Len(file.bytes) THEN file.bytes[k + 1] ELSE (7 * k + 3) % 256

\* bytes from .. to - 1 of a file
FileBytesFrom(file, from, to) ==
    IF from >= to THEN <<>>
    ELSE [j \in 1..(to - from) |-> FileByte(file, from + j - 1)] \o <<>>

\* data.slice(offset, end): end is clamped to the length, and nothing is
\* returned when offset is not below it
SliceFile(file, offset, end) ==
    IF WLe(W(file.byteLength), offset) THEN <<>>
    ELSE FileBytesFrom(file, offset[1] * 65536 + offset[2],
                       IF WLt(W(file.byteLength), end) THEN file.byteLength
                       ELSE end[1] * 65536 + end[2])

RECURSIVE sectionsFrom(_, _, _, _, _, _)
\* one loop of extractDOLSections from index i (from 1) on; with keepEmpty
\* the loop does not test the size
sectionsFrom(data, offsets, addresses, sizes, i, keepEmpty) ==
    IF i > Len(sizes) THEN <<>>
    ELSE (IF keepEmpty \/ WLt(W(0), sizes[i])
          THEN <<[offset |-> offsets[i], address |-> addresses[i], size |-> sizes[i],
                  data |-> SliceFile(data, offsets[i], WAdd(offsets[i], sizes[i]))]>>
          ELSE <<>>)
         \o sectionsFrom(data, offsets, addresses, sizes, i + 1, keepEmpty)

RECURSIVE sumSizes(_)
\* totalSize += size over the kept sections
sumSizes(sections) ==
    IF sections = <<>> THEN W(0)
    ELSE WAdd(sumSizes(SubSeq(sections, 1, Len(sections) - 1)),
              sections[Len(sections)].size)

\* extractDOLSections that keeps the sections of size 0 as well
extractDOLSectionsKeepEmpty(data, header) ==
    LET textSections == sectionsFrom(data, header.textOffsets, header.textAddresses,
                                     header.textSizes, 1, TRUE)
        dataSections == sectionsFrom(data, header.dataOffsets, header.dataAddresses,
                                     header.dataSizes, 1, TRUE)
    IN  [textSections |-> textSections, dataSections |-> dataSections,
         totalSize |-> sumSizes(textSections \o dataSections)]

extractDOLSections(data, header) ==
    LET textSections == sectionsFrom(data, header.textOffsets, header.textAddresses,
                                     header.textSizes, 1, FALSE)
        dataSections == sectionsFrom(data, header.dataOffsets, header.dataAddresses,
                                     header.dataSizes, 1, FALSE)
    IN  [textSections |-> textSections, dataSections |-> dataSections,
         totalSize |-> sumSizes(textSections \o dataSections)]

-----------------------------------------------------------------------------
(* UF2 encoder constants: src/unnamed/part_005 (lib/firmware/uf2-encoder.ts) *)

\* UF2_FAMILY_IDS: RP2040 0xE48BFF56, RP2350 0xE48BFF59
UF2_FAMILY_IDS == [RP2040 |-> <<58507, 65366>>, RP2350 |-> <<58507, 65369>>]

\* MEMORY_LAYOUT: FLASH_BASE 0x10000000, PAYLOAD_BASE 0x10080000
MEMORY_LAYOUT == [FLASH_BASE |-> <<4096, 0>>, FLASH_SIZE |-> <<8, 0>>,
                  PAYLOAD_BASE |-> <<4104, 0>>, PAYLOAD_SIZE |-> <<24, 0>>]

\* the three UF2 magic numbers 0x0A324655, 0x9E5D5157, 0x0AB16F30
UF2_MAGIC_START0 == <<2610, 18005>>
UF2_MAGIC_START1 == <<40541, 20823>>
UF2_MAGIC_END == <<2737, 28464>>

-----------------------------------------------------------------------------
(* UF2 encoder: src/unnamed/part_005 (lib/firmware/uf2-encoder.ts).  The
   arguments are JavaScript values: the caller in the build store passes an
   object where a Uint8Array is expected, and an options object with other
   keys, so a value carries its type and a missing property reads undefined. *)

Undefined == [type |-> "undefined"]

Uint8Array(bytes) == [type |-> "Uint8Array", bytes |-> bytes]

JsObject(fields) == [type |-> "object", fields |-> fields]

JsString(str) == [type |-> "string", str |-> str]

JsNumber(num) == [type |-> "number", num |-> num]

\* options.key, undefined when the object has no such property
Prop(object, key) == IF key \in DOMAIN object THEN object[key] ELSE Undefined

RECURSIVE uf2BlocksFrom(_, _, _, _, _)
\* blocks number i .. numBlocks - 1 of the uf2gen encoding of bytes
uf2BlocksFrom(bytes, baseAddress, familyId, numBlocks, i) ==
    IF i >= numBlocks THEN <<>>
    ELSE LET chunk == SliceBytes(bytes, i * 256, i * 256 + 256)
         IN  BytesLE(UF2_MAGIC_START0) \o BytesLE(UF2_MAGIC_START1) \o BytesLE(W(8192))
             \o BytesLE(WAdd(baseAddress, W(i * 256))) \o BytesLE(W(Len(chunk)))
             \o BytesLE(W(i)) \o BytesLE(W(numBlocks)) \o BytesLE(familyId)
             \o chunk \o Zeros(476 - Len(chunk)) \o BytesLE(UF2_MAGIC_END)
             \o uf2BlocksFrom(bytes, baseAddress, familyId, numBlocks, i + 1)

\* uf2gen's convertBinToUf2: the set of results a call can have.  On a byte
\* buffer and a numeric address it is the encoding; on anything else the
\* library is outside its contract: it throws, or finds no length and no chunk
\* to encode and returns no block
convertBinToUf2(data, baseAddress, familyId) ==
    IF data.type = "Uint8Array" /\ baseAddress.type = "number"
    THEN {Ok(uf2BlocksFrom(data.bytes, baseAddress.num, familyId,
                           (Len(data.bytes) + 255) \div 256, 0))}
    ELSE {Throw("TypeError", <<>>), Ok(<<>>)}

getFamilyId(plat) ==
    IF plat.type = "string" /\ plat.str \in DOMAIN UF2_FAMILY_IDS
    THEN JsNumber(UF2_FAMILY_IDS[plat.str])
    ELSE Undefined

\* patchFamilyId that stops after the first block
patchFamilyIdFirstBlock(uf2Data, newFamilyId) ==
    [k \in 1..Len(uf2Data) |->
        IF k - 1 \in 28..31
        THEN BytesLE(newFamilyId)[k - 28]
        ELSE uf2Data[k]] \o <<>>

patchFamilyId(uf2Data, newFamilyId) ==
    [k \in 1..Len(uf2Data) |->
        IF (k - 1) % 512 \in 28..31
        THEN BytesLE(newFamilyId)[((k - 1) % 512) - 27]
        ELSE uf2Data[k]] \o <<>>

\* encodeToUF2's result without the patch for RP2350
encodeResultNoPatch(uf2Data, plat, baseAddress) ==
    Ok([data |-> uf2Data,
        blockCount |-> Len(uf2Data) \div 512,
        totalSize |-> Len(uf2Data),
        familyId |-> getFamilyId(plat),
        baseAddress |-> baseAddress])

\* the result of encodeToUF2 once convertBinToUf2 has returned uf2Data
encodeResult(uf2Data, plat, baseAddress) ==
    LET finalData == IF plat = JsString("RP2350")
                     THEN patchFamilyId(uf2Data, UF2_FAMILY_IDS.RP2350)
                     ELSE uf2Data
    IN  Ok([data |-> finalData,
            blockCount |-> Len(finalData) \div 512,
            totalSize |-> Len(finalData),
            familyId |-> getFamilyId(plat),
            baseAddress |-> baseAddress])

\* the set of results a call of encodeToUF2 can have
encodeToUF2(data, options) ==
    LET plat == Prop(options, "platform")
        baseAddress == Prop(options, "baseAddress")
    IN  {IF r.ok THEN encodeResult(r.val, plat, baseAddress) ELSE r :
            r \in convertBinToUf2(data, baseAddress, UF2_FAMILY_IDS.RP2040)}

-----------------------------------------------------------------------------
(* UF2 merger: src/src/lib/firmware/uf2-merger.ts *)

BLOCK_SIZE == 512
PAYLOAD_SIZE == 256

\* parseBlock that does not look at the end magic
parseBlockNoEndMagic(blockData) ==
    IF Len(blockData) # BLOCK_SIZE
    THEN Throw("Invalid block size", <<Len(blockData)>>)
    ELSE LET magicStart0 == GetUint32LE(blockData, 0)
             magicStart1 == GetUint32LE(blockData, 4)
             magicEnd == GetUint32LE(blockData, 508)
         IN  IF \/ magicStart0 # UF2_MAGIC_START0
                \/ magicStart1 # UF2_MAGIC_START1
             THEN Throw("Invalid UF2 block: bad magic numbers", <<>>)
             ELSE Ok([magicStart0 |-> magicStart0,
                      magicStart1 |-> magicStart1,
                      flags |-> GetUint32LE(blockData, 8),
                      targetAddr |-> GetUint32LE(blockData, 12),
                      payloadSize |-> GetUint32LE(blockData, 16),
                      blockNo |-> GetUint32LE(blockData, 20),
                      numBlocks |-> GetUint32LE(blockData, 24),
                      familyID |-> GetUint32LE(blockData, 28),
                      data |-> SliceBytes(blockData, 32, 32 + PAYLOAD_SIZE),
                      magicEnd |-> magicEnd])

parseBlock(blockData) ==
    IF Len(blockData) # BLOCK_SIZE
    THEN Throw("Invalid block size", <<Len(blockData)>>)
    ELSE LET magicStart0 == GetUint32LE(blockData, 0)
             magicStart1 == GetUint32LE(blockData, 4)
             magicEnd == GetUint32LE(blockData, 508)
         IN  IF \/ magicStart0 # UF2_MAGIC_START0
                \/ magicStart1 # UF2_MAGIC_START1
                \/ magicEnd # UF2_MAGIC_END
             THEN Throw("Invalid UF2 block: bad magic numbers", <<>>)
             ELSE Ok([magicStart0 |-> magicStart0,
                      magicStart1 |-> magicStart1,
                      flags |-> GetUint32LE(blockData, 8),
                      targetAddr |-> GetUint32LE(blockData, 12),
                      payloadSize |-> GetUint32LE(blockData, 16),
                      blockNo |-> GetUint32LE(blockData, 20),
                      numBlocks |-> GetUint32LE(blockData, 24),
                      familyID |-> GetUint32LE(blockData, 28),
                      data |-> SliceBytes(blockData, 32, 32 + PAYLOAD_SIZE),
                      magicEnd |-> magicEnd])

parseUF2Blocks(uf2Data) ==
    IF Len(uf2Data) % BLOCK_SIZE # 0
    THEN Throw("Invalid UF2 data size", <<Len(uf2Data)>>)
    ELSE LET blockCount == Len(uf2Data) \div BLOCK_SIZE
             parsed == [i \in 1..blockCount |->
                          parseBlock(SliceBytes(uf2Data, (i - 1) * BLOCK_SIZE,
                                                (i - 1) * BLOCK_SIZE + BLOCK_SIZE))]
             bad == {i \in 1..blockCount : ~parsed[i].ok}
         IN  IF bad # {} THEN parsed[MinOf(bad)]      \* the first throw ends the loop
             ELSE Ok([i \in 1..blockCount |-> parsed[i].val])

\* validateMemoryLayout without the check against FLASH_BASE
validateMemoryLayoutNoFlashCheck(baseBlocks, payloadBlocks) ==
    IF Len(baseBlocks) = 0 \/ Len(payloadBlocks) = 0 THEN Ok(<<>>)
    ELSE
    LET baseStart == WMin({baseBlocks[i].targetAddr : i \in 1..Len(baseBlocks)})
        baseEnd == WMax({WAdd(baseBlocks[i].targetAddr, baseBlocks[i].payloadSize) :
                           i \in 1..Len(baseBlocks)})
        payloadStart == WMin({payloadBlocks[i].targetAddr : i \in 1..Len(payloadBlocks)})
        payloadEnd == WMax({WAdd(payloadBlocks[i].targetAddr, payloadBlocks[i].payloadSize) :
                              i \in 1..Len(payloadBlocks)})
    IN  IF WLt(payloadStart, baseEnd) /\ WLt(baseStart, payloadEnd)
        THEN Throw("Memory overlap detected",
                   <<baseStart, baseEnd, payloadStart, payloadEnd>>)
        ELSE IF WLt(payloadStart, baseEnd)
        THEN Throw("Payload starts before base firmware ends", <<payloadStart, baseEnd>>)
        ELSE Ok(<<>>)

\* validateMemoryLayout that checks the flash region before the overlap
validateMemoryLayoutFlashFirst(baseBlocks, payloadBlocks) ==
    IF Len(baseBlocks) = 0 \/ Len(payloadBlocks) = 0 THEN Ok(<<>>)
    ELSE
    LET baseStart == WMin({baseBlocks[i].targetAddr : i \in 1..Len(baseBlocks)})
        baseEnd == WMax({WAdd(baseBlocks[i].targetAddr, baseBlocks[i].payloadSize) :
                           i \in 1..Len(baseBlocks)})
        payloadStart == WMin({payloadBlocks[i].targetAddr : i \in 1..Len(payloadBlocks)})
        payloadEnd == WMax({WAdd(payloadBlocks[i].targetAddr, payloadBlocks[i].payloadSize) :
                              i \in 1..Len(payloadBlocks)})
    IN  IF WLt(baseStart, MEMORY_LAYOUT.FLASH_BASE)
        THEN Throw("Base firmware starts before flash region", <<baseStart>>)
        ELSE IF WLt(payloadStart, baseEnd) /\ WLt(baseStart, payloadEnd)
        THEN Throw("Memory overlap detected",
                   <<baseStart, baseEnd, payloadStart, payloadEnd>>)
        ELSE IF WLt(payloadStart, baseEnd)
        THEN Throw("Payload starts before base firmware ends", <<payloadStart, baseEnd>>)
        ELSE Ok(<<>>)

validateMemoryLayout(baseBlocks, payloadBlocks) ==
    IF Len(baseBlocks) = 0 \/ Len(payloadBlocks) = 0 THEN Ok(<<>>)
    ELSE
    LET baseStart == WMin({baseBlocks[i].targetAddr : i \in 1..Len(baseBlocks)})
        baseEnd == WMax({WAdd(baseBlocks[i].targetAddr, baseBlocks[i].payloadSize) :
                           i \in 1..Len(baseBlocks)})
        payloadStart == WMin({payloadBlocks[i].targetAddr : i \in 1..Len(payloadBlocks)})
        payloadEnd == WMax({WAdd(payloadBlocks[i].targetAddr, payloadBlocks[i].payloadSize) :
                              i \in 1..Len(payloadBlocks)})
    IN  IF WLt(payloadStart, baseEnd) /\ WLt(baseStart, payloadEnd)
        THEN Throw("Memory overlap detected",
                   <<baseStart, baseEnd, payloadStart, payloadEnd>>)
        ELSE IF WLt(baseStart, MEMORY_LAYOUT.FLASH_BASE)
        THEN Throw("Base firmware starts before flash region", <<baseStart>>)
        ELSE IF WLt(payloadStart, baseEnd)
        THEN Throw("Payload starts before base firmware ends", <<payloadStart, baseEnd>>)
        ELSE Ok(<<>>)

\* renumberBlocks that also gives every block the family tag of the first
renumberBlocksRetag(blocks) ==
    LET totalBlocks == Len(blocks)
    IN  [index \in 1..Len(blocks) |->
            [blocks[index] EXCEPT !.blockNo = W(index - 1), !.numBlocks = W(totalBlocks),
                                  !.familyID = blocks[1].familyID]]

\* renumberBlocks that leaves each block's numBlocks as it was
renumberBlocksKeepTotal(blocks) ==
    [index \in 1..Len(blocks) |-> [blocks[index] EXCEPT !.blockNo = W(index - 1)]]

renumberBlocks(blocks) ==
    LET totalBlocks == Len(blocks)
    IN  [index \in 1..Len(blocks) |->
            [blocks[index] EXCEPT !.blockNo = W(index - 1), !.numBlocks = W(totalBlocks)]]

\* serializeBlock that does not write the flags word
serializeBlockNoFlags(block) ==
    LET r0 == Zeros(BLOCK_SIZE)
        r1 == SetBytes(r0, BytesLE(block.magicStart0), 0)
        r2 == SetBytes(r1, BytesLE(block.magicStart1), 4)
        r4 == SetBytes(r2, BytesLE(block.targetAddr), 12)
        r5 == SetBytes(r4, BytesLE(block.payloadSize), 16)
        r6 == SetBytes(r5, BytesLE(block.blockNo), 20)
        r7 == SetBytes(r6, BytesLE(block.numBlocks), 24)
        r8 == SetBytes(r7, BytesLE(block.familyID), 28)
        r9 == SetBytes(r8, block.data, 32)
    IN  SetBytes(r9, BytesLE(block.magicEnd), 508)

serializeBlock(block) ==
    LET r0 == Zeros(BLOCK_SIZE)
        r1 == SetBytes(r0, BytesLE(block.magicStart0), 0)
        r2 == SetBytes(r1, BytesLE(block.magicStart1), 4)
        r3 == SetBytes(r2, BytesLE(block.flags), 8)
        r4 == SetBytes(r3, BytesLE(block.targetAddr), 12)
        r5 == SetBytes(r4, BytesLE(block.payloadSize), 16)
        r6 == SetBytes(r5, BytesLE(block.blockNo), 20)
        r7 == SetBytes(r6, BytesLE(block.numBlocks), 24)
        r8 == SetBytes(r7, BytesLE(block.familyID), 28)
        r9 == SetBytes(r8, block.data, 32)
    IN  SetBytes(r9, BytesLE(block.magicEnd), 508)

RECURSIVE serializeBlocksFrom(_, _)
\* blocks.forEach((block, index) => result.set(serializeBlock(block), index * 512)),
\* from block number index on
serializeBlocksFrom(blocks, index) ==
    IF index > Len(blocks) THEN <<>>
    ELSE serializeBlock(blocks[index]) \o serializeBlocksFrom(blocks, index + 1)

serializeBlocks(blocks) == serializeBlocksFrom(blocks, 1)

\* [...payloadBlocks, ...baseBlocks]: the payload blocks put first
combineBlocksPayloadFirst(baseBlocks, payloadBlocks) == payloadBlocks \o baseBlocks

\* const allBlocks = [...baseBlocks, ...payloadBlocks]
combineBlocks(baseBlocks, payloadBlocks) == baseBlocks \o payloadBlocks

mergeUF2(baseFirmware, payloadFirmware) ==
    LET base == parseUF2Blocks(baseFirmware)
        payload == parseUF2Blocks(payloadFirmware)
    IN  IF ~base.ok THEN base
        ELSE IF ~payload.ok THEN payload
        ELSE LET layout == validateMemoryLayout(base.val, payload.val)
             IN  IF ~layout.ok THEN layout
                 ELSE LET allBlocks == combineBlocks(base.val, payload.val)
                          renumbered == renumberBlocks(allBlocks)
                          mergedData == serializeBlocks(renumbered)
                      IN  Ok([data |-> mergedData,
                              totalBlocks |-> Len(renumbered),
                              baseBlocks |-> Len(base.val),
                              payloadBlocks |-> Len(payload.val)])


-----------------------------------------------------------------------------
(* The build store: src/src/stores/build.ts.  buildFirmware is an async
   function: a call runs from one await to the next without interleaving
   (each such stretch is one action, or a chain of actions no other action
   can come between), and other handlers run while it waits. *)

\* null, and a local not yet assigned
Null == <<>>

\* most calls of buildFirmware in a behaviour
MaxCalls == 2
Calls == 1..MaxCalls

AssetNames == {"picoboot_pico.uf2", "picoboot_pico2.uf2"}

Platforms == {"RP2040", "RP2350"}

\* a call of buildFirmware that has not been made: position and locals, and
\* what it has done so far (phases run, error thrown and where, message
\* shown, output written)
IdleCall ==
    [pc |-> "idle", assetName |-> Null, baseFirmware |-> Null, dolFile |-> Null,
     dolHeader |-> Null, scrambled |-> Null, wrapped |-> Null, payloadUF2 |-> Null,
     mergeResult |-> Null, phases |-> <<>>, raised |-> Null, failedAt |-> "nowhere",
     surfaced |-> Null, wrote |-> FALSE]

\* what a download finds: no asset of that name, or the asset's content
NoAsset == <<>>
Asset(content) == <<content>>

NoRelease == [base |-> [n \in AssetNames |-> NoAsset], zip |-> NoAsset]

StoreInit ==
    /\ picobootVersion = "latest"
    /\ platform = "RP2040"
    /\ payloadVersion = "latest"
    /\ isBuilding = FALSE
    /\ buildProgress = 0
    /\ buildSteps = <<>>
    /\ firmwareData = Null
    /\ firmwareChecksum = ""
    /\ firmwareDownloadUrl = ""
    /\ firmwareFilename = ""
    /\ calls = [c \in Calls |-> IdleCall]
    /\ toasts = <<>>

canBuild ==
    picobootVersion # "" /\ platform # "" /\ payloadVersion # "" /\ ~isBuilding

\* the steps buildFirmware starts with (id and label are fixed and left out)
initialSteps ==
    [i \in 1..7 |-> [status |-> IF i = 1 THEN "in_progress" ELSE "pending",
                     error |-> Null]]

updateStep(steps, index, status) ==
    IF index + 1 \in DOMAIN steps
    THEN [steps EXCEPT ![index + 1].status = status]
    ELSE steps

\* a catch block that shows 'Unknown error' whatever was thrown
errorMessageUnknown(error) == [msg |-> "Unknown error", args |-> <<>>]

\* error instanceof Error ? error.message : 'Unknown error'; every value
\* thrown in the build is an Error, kept here as its message
errorMessageOf(error) == error

\* the catch block's steps: the first step in progress takes the error
markCurrentStep(steps, errorMessage) ==
    LET inProgress == {i \in DOMAIN steps : steps[i].status = "in_progress"}
    IN  IF inProgress = {} THEN steps
        ELSE [steps EXCEPT ![MinOf(inProgress)] =
                               [status |-> "error", error |-> errorMessage]]

\* crypto.subtle.digest('SHA-256', data) as hex: the digest is kept symbolic
calculateSHA256(data) == <<"sha256", data>>

\* URL.createObjectURL(new Blob([data])): the URL is kept symbolic
createDownloadURL(data) == <<"blob", data>>

toLowerCase(plat) == IF plat = "RP2040" THEN "rp2040" ELSE "rp2350"

\* positions between two awaits: a call there runs on before anything else does
SyncPcs == {"parse", "validate", "scramble", "wrap", "encode", "merge"}

Running == \E c \in Calls : calls[c].pc \in SyncPcs

\* a value thrown inside the try block of call c, whose record is call by
\* then: the catch block and the finally block
Catch(c, call, error) ==
    LET errorMessage == errorMessageOf(error)
    IN  /\ buildSteps' = markCurrentStep(buildSteps, errorMessage)
        /\ toasts' = Append(toasts, [kind |-> "error", description |-> errorMessage])
        /\ isBuilding' = FALSE
        /\ calls' = [calls EXCEPT ![c] = [call EXCEPT !.pc = "done", !.raised = error,
                                                      !.failedAt = calls[c].pc,
                                                      !.surfaced = errorMessage]]
        /\ UNCHANGED <<picobootVersion, platform, payloadVersion, buildProgress,
                       firmwareData, firmwareChecksum, firmwareDownloadUrl,
                       firmwareFilename, release, fnVars>>

\* call c goes on as call with these steps and this progress
Continue(c, call, steps, progress) ==
    /\ calls' = [calls EXCEPT ![c] = call]
    /\ buildSteps' = steps
    /\ buildProgress' = progress
    /\ UNCHANGED <<picobootVersion, platform, payloadVersion, isBuilding,
                   firmwareData, firmwareChecksum, firmwareDownloadUrl,
                   firmwareFilename, toasts, release, fnVars>>

\* a request that fails: fetch rejects, or the API answers with an error
NetworkError == [msg |-> "Network request failed", args |-> <<>>]

\* lines 51-72: the guard, the initial steps, up to the first await
BuildFirmware(c) ==
    /\ calls[c].pc = "idle" /\ ~Running
    /\ \A b \in Calls : b < c => calls[b].pc # "idle"    \* the calls are made in turn
    /\ IF ~canBuild THEN UNCHANGED vars
       ELSE /\ isBuilding' = TRUE
            /\ buildProgress' = 0
            /\ buildSteps' = initialSteps
            /\ calls' = [calls EXCEPT ![c] =
                  [@ EXCEPT !.pc = "fetchRelease",
                            !.assetName = IF platform = "RP2040" THEN "picoboot_pico.uf2"
                                          ELSE "picoboot_pico2.uf2"]]
            /\ UNCHANGED <<picobootVersion, platform, payloadVersion, firmwareData,
                           firmwareChecksum, firmwareDownloadUrl, firmwareFilename,
                           toasts, release, fnVars>>

\* lines 70-79: the release arrives and the download of the base asset starts
FetchReleaseSettles(c) ==
    /\ calls[c].pc = "fetchRelease" /\ ~Running
    /\ \/ Catch(c, calls[c], NetworkError)
       \/ Continue(c, [calls[c] EXCEPT !.pc = "downloadBase"], buildSteps, buildProgress)

\* lines 74-93: the base asset arrives (null when the release has none)
DownloadBaseSettles(c) ==
    /\ calls[c].pc = "downloadBase" /\ ~Running
    /\ \/ Catch(c, calls[c], NetworkError)
       \/ LET baseFirmwareResult == release.base[calls[c].assetName]
          IN  IF baseFirmwareResult = NoAsset
              THEN Catch(c, calls[c], [msg |-> "Base firmware not found in release",
                                       args |-> <<calls[c].assetName>>])
              ELSE Continue(c, [calls[c] EXCEPT !.pc = "fetchPayloadRelease",
                                                !.baseFirmware = baseFirmwareResult[1]],
                            updateStep(updateStep(buildSteps, 0, "completed"),
                                       1, "in_progress"),
                            14)

\* lines 91-100: the payload release arrives and the download of the ZIP starts
FetchPayloadReleaseSettles(c) ==
    /\ calls[c].pc = "fetchPayloadRelease" /\ ~Running
    /\ \/ Catch(c, calls[c], NetworkError)
       \/ Continue(c, [calls[c] EXCEPT !.pc = "downloadPayload"], buildSteps,
                   buildProgress)

\* lines 95-112: the ZIP arrives (null when the release has none) and the
\* extraction starts
DownloadPayloadSettles(c) ==
    /\ calls[c].pc = "downloadPayload" /\ ~Running
    /\ \/ Catch(c, calls[c], NetworkError)
       \/ IF release.zip = NoAsset
          THEN Catch(c, calls[c], [msg |-> "Gekkoboot ZIP not found in release",
                                   args |-> <<>>])
          ELSE Continue(c, [calls[c] EXCEPT !.pc = "extract"],
                        updateStep(updateStep(buildSteps, 1, "completed"),
                                   2, "in_progress"),
                        28)

\* lines 112-121: extractFromZipByPattern settles (it throws when no file of
\* the ZIP matches)
ExtractSettles(c) ==
    /\ calls[c].pc = "extract" /\ ~Running
    /\ IF release.zip[1].dol = NoAsset
       THEN Catch(c, calls[c], [msg |-> "No file matching pattern found in ZIP",
                                args |-> <<>>])
       ELSE Continue(c, [calls[c] EXCEPT !.pc = "parse", !.dolFile = release.zip[1].dol[1]],
                     updateStep(updateStep(buildSteps, 2, "completed"),
                                3, "in_progress"),
                     42)

\* line 123
ParseDOL(c) ==
    /\ calls[c].pc = "parse"
    /\ LET call == [calls[c] EXCEPT !.phases = Append(@, "parse")]
           dolHeader == parseDOLHeader(calls[c].dolFile)
       IN  IF ~dolHeader.ok THEN Catch(c, call, dolHeader.err)
           ELSE Continue(c, [call EXCEPT !.pc = "validate", !.dolHeader = dolHeader.val],
                         buildSteps, buildProgress)

\* line 124
ValidateDOL(c) ==
    /\ calls[c].pc = "validate"
    /\ LET call == [calls[c] EXCEPT !.phases = Append(@, "validate")]
           valid == validateDOL(calls[c].dolHeader, calls[c].dolFile)
       IN  IF ~valid.ok THEN Catch(c, call, valid.err)
           ELSE Continue(c, [call EXCEPT !.pc = "scramble"], buildSteps, buildProgress)

\* line 125
ScrambleDOL(c) ==
    /\ calls[c].pc = "scramble"
    /\ Continue(c, [calls[c] EXCEPT !.pc = "wrap", !.phases = Append(@, "scramble"),
                                    !.scrambled = scramble(calls[c].dolFile)],
                buildSteps, buildProgress)

\* lines 126-132
WrapScrambled(c) ==
    /\ calls[c].pc = "wrap"
    /\ Continue(c, [calls[c] EXCEPT !.pc = "encode", !.phases = Append(@, "wrap"),
                                    !.wrapped = wrapPayload(calls[c].scrambled)],
                updateStep(updateStep(buildSteps, 3, "completed"), 4, "in_progress"),
                56)

\* lines 134-143: encodeToUF2 is handed the WrappedPayload object and an
\* options object with the properties familyId and targetAddr
EncodePayload(c) ==
    /\ calls[c].pc = "encode"
    /\ \E payloadUF2Result \in
            encodeToUF2(JsObject(calls[c].wrapped),
                        [familyId |-> JsString(platform),
                         targetAddr |-> JsNumber(<<4104, 0>>)]) :
          LET call == [calls[c] EXCEPT !.phases = Append(@, "encode")]
          IN  IF ~payloadUF2Result.ok THEN Catch(c, call, payloadUF2Result.err)
              ELSE Continue(c, [call EXCEPT !.pc = "merge",
                                            !.payloadUF2 = payloadUF2Result.val],
                            updateStep(updateStep(buildSteps, 4, "completed"),
                                       5, "in_progress"),
                            70)

\* lines 145-154: the merge, and the first statements of step 7 up to the await
MergeFirmware(c) ==
    /\ calls[c].pc = "merge"
    /\ LET call == [calls[c] EXCEPT !.phases = Append(@, "merge")]
           mergeResult == mergeUF2(calls[c].baseFirmware, calls[c].payloadUF2.data)
       IN  IF ~mergeResult.ok THEN Catch(c, call, mergeResult.err)
           ELSE /\ calls' = [calls EXCEPT ![c] =
                      [call EXCEPT !.pc = "checksum", !.mergeResult = mergeResult.val,
                                   !.wrote = TRUE]]
                /\ buildSteps' = updateStep(updateStep(buildSteps, 5, "completed"),
                                            6, "in_progress")
                /\ buildProgress' = 85
                /\ firmwareData' = Uint8Array(mergeResult.val.data)
                /\ UNCHANGED <<picobootVersion, platform, payloadVersion, isBuilding,
                               firmwareChecksum, firmwareDownloadUrl, firmwareFilename,
                               toasts, release, fnVars>>

\* lines 154-163 and 176-178: the digest arrives, or crypto.subtle rejects
ChecksumSettles(c) ==
    /\ calls[c].pc = "checksum" /\ ~Running
    /\ \/ Catch(c, calls[c], [msg |-> "SHA-256 digest failed", args |-> <<>>])
       \/ /\ firmwareChecksum' = calculateSHA256(calls[c].mergeResult.data)
          /\ firmwareDownloadUrl' = createDownloadURL(calls[c].mergeResult.data)
          /\ firmwareFilename' = <<"picoboot_gekkoboot_", toLowerCase(platform), ".uf2">>
          /\ buildSteps' = updateStep(buildSteps, 6, "completed")
          /\ buildProgress' = 100
          /\ toasts' = Append(toasts, [kind |-> "success",
                                       description |-> firmwareFilename'])
          /\ isBuilding' = FALSE
          /\ calls' = [calls EXCEPT ![c].pc = "done"]
          /\ UNCHANGED <<picobootVersion, platform, payloadVersion, firmwareData,
                         release, fnVars>>

\* the platform selector of the form (v-model on store.platform)
SelectPlatform(p) ==
    /\ p # platform /\ ~Running
    /\ platform' = p
    /\ UNCHANGED <<picobootVersion, payloadVersion, isBuilding, buildProgress,
                   buildSteps, firmwareData, firmwareChecksum, firmwareDownloadUrl,
                   firmwareFilename, calls, toasts, release, fnVars>>

\* lines 181-189
Reset ==
    /\ ~Running
    /\ isBuilding' = FALSE
    /\ buildProgress' = 0
    /\ buildSteps' = <<>>
    /\ firmwareData' = Null
    /\ firmwareChecksum' = ""
    /\ firmwareDownloadUrl' = ""
    /\ firmwareFilename' = ""
    /\ UNCHANGED <<picobootVersion, platform, payloadVersion, calls, toasts, release,
                   fnVars>>

-----------------------------------------------------------------------------
(* What the release server holds *)

\* a 512-byte UF2 block as a file holds it: 32-byte header, 256 data bytes,
\* 220 further bytes of the data region, end magic
BlockBytes(magic0, addr, size, no, total, family, fill, pad, magicEnd) ==
    BytesLE(magic0) \o BytesLE(UF2_MAGIC_START1) \o BytesLE(W(8192)) \o BytesLE(addr)
    \o BytesLE(W(size)) \o BytesLE(W(no)) \o BytesLE(W(total)) \o BytesLE(family)
    \o [i \in 1..256 |-> fill] \o [i \in 1..220 |-> pad] \o BytesLE(magicEnd)

\* a DOL file: a header with one text section, then the bytes after the header
DolFile(entryPoint, textOffset, textAddress, textSize, body) ==
    SetBytes(SetBytes(SetBytes(SetBytes(Zeros(DOL_HEADER_SIZE),
        BytesBE(textOffset), 0), BytesBE(textAddress), 72), BytesBE(textSize), 144),
        BytesBE(entryPoint), 224) \o body

\* one text section of 5 bytes after the header: 261 bytes, no multiple of 4
GoodDol == SampleDol

\* entry point 0x80003100
BadEntryDol == DolFile(<<32768, 12544>>, W(256), EXPECTED_ENTRY_POINT, W(4),
                       <<9, 9, 9, 9>>)

\* fewer bytes than a header
ShortDol == <<0, 1, 2>>

\* two blocks at the start of the flash region
GoodBase(family) ==
    BlockBytes(UF2_MAGIC_START0, MEMORY_LAYOUT.FLASH_BASE, 256, 0, 2, family,
               17, 0, UF2_MAGIC_END)
    \o BlockBytes(UF2_MAGIC_START0, WAdd(MEMORY_LAYOUT.FLASH_BASE, W(256)), 256, 1, 2,
                  family, 34, 0, UF2_MAGIC_END)

\* one block whose end magic is wrong
BadMagicBase ==
    BlockBytes(UF2_MAGIC_START0, MEMORY_LAYOUT.FLASH_BASE, 256, 0, 1,
               UF2_FAMILY_IDS.RP2040, 85, 0, UF2_MAGIC_START0)

BaseAssets(pico, pico2) ==
    [n \in AssetNames |-> IF n = "picoboot_pico.uf2" THEN pico ELSE pico2]

\* a ZIP that holds the DOL, and a ZIP that holds no file of that name
ZipWith(dol) == Asset([dol |-> Asset(dol)])
ZipWithoutDol == Asset([dol |-> NoAsset])

Releases ==
    { [base |-> BaseAssets(Asset(GoodBase(UF2_FAMILY_IDS.RP2040)),
                           Asset(GoodBase(UF2_FAMILY_IDS.RP2350))),
       zip |-> ZipWith(GoodDol)],
      [base |-> BaseAssets(Asset(BadMagicBase), NoAsset), zip |-> ZipWith(GoodDol)],
      [base |-> BaseAssets(Asset(GoodBase(UF2_FAMILY_IDS.RP2040)),
                           Asset(GoodBase(UF2_FAMILY_IDS.RP2350))),
       zip |-> ZipWith(BadEntryDol)],
      [base |-> BaseAssets(Asset(GoodBase(UF2_FAMILY_IDS.RP2040)), NoAsset),
       zip |-> ZipWith(ShortDol)],
      [base |-> BaseAssets(Asset(GoodBase(UF2_FAMILY_IDS.RP2040)), NoAsset),
       zip |-> ZipWithoutDol],
      [base |-> BaseAssets(NoAsset, Asset(GoodBase(UF2_FAMILY_IDS.RP2350))),
       zip |-> NoAsset] }

Init ==
    /\ StoreInit
    /\ release \in Releases
    /\ fnIn = <<>> /\ fnOut = <<>> /\ fnPc = "store"

Next ==
    \/ \E c \in Calls :
          \/ BuildFirmware(c)
          \/ FetchReleaseSettles(c)
          \/ DownloadBaseSettles(c)
          \/ FetchPayloadReleaseSettles(c)
          \/ DownloadPayloadSettles(c)
          \/ ExtractSettles(c)
          \/ ParseDOL(c)
          \/ ValidateDOL(c)
          \/ ScrambleDOL(c)
          \/ WrapScrambled(c)
          \/ EncodePayload(c)
          \/ MergeFirmware(c)
          \/ ChecksumSettles(c)
    \/ \E p \in Platforms : SelectPlatform(p)
    \/ Reset

Spec == Init /\ [][Next]_vars

-----------------------------------------------------------------------------
(* SpecScramble: scramble applied to every short byte sequence, then to its
   own output *)

InitScramble ==
    /\ StoreInit /\ release = NoRelease
    /\ fnIn \in SeqsUpTo(SampleBytes, MaxLen)
    /\ fnOut = <<>>
    /\ fnPc = "ready"

ScrambleOnce ==
    /\ fnPc = "ready"
    /\ fnOut' = scramble(fnIn)
    /\ fnPc' = "once"
    /\ UNCHANGED <<fnIn, storeVars>>

ScrambleAgain ==
    /\ fnPc = "once"
    /\ fnOut' = scramble(fnOut)
    /\ fnPc' = "twice"
    /\ UNCHANGED <<fnIn, storeVars>>

NextScramble == ScrambleOnce \/ ScrambleAgain

SpecScramble == InitScramble /\ [][NextScramble]_vars

\* C3: scramble is an involution: scrambling the output of scramble gives the
\* input back, for every byte sequence, the empty one included
C3_ScrambleInvolution == fnPc = "twice" => fnOut = fnIn

\* a sequence of the longest length has been scrambled twice
C3_Witness == fnPc = "twice" /\ Len(fnIn) = MaxLen /\ fnOut = fnIn

\* C4: scramble preserves length: the output has exactly as many bytes as the
\* input (the PREPEND_SIZE prepended bytes are dropped), and the empty input
\* gives the empty output
C4_ScramblePreservesLength ==
    fnPc = "once" => /\ Len(fnOut) = Len(fnIn)
                     /\ (fnIn = <<>> => fnOut = <<>>)

\* a sequence of the longest length has been scrambled, and was changed by it
C4_Witness == fnPc = "once" /\ Len(fnIn) = MaxLen /\ Len(fnOut) = MaxLen /\ fnOut # fnIn


-----------------------------------------------------------------------------
(* SpecMerge: mergeUF2 applied to streams assembled from a few kinds of block *)

BaseBlockKinds ==
    { \* first flash block as the encoder writes it
      BlockBytes(UF2_MAGIC_START0, MEMORY_LAYOUT.FLASH_BASE, 256, 0, 2,
                 UF2_FAMILY_IDS.RP2040, 17, 0, UF2_MAGIC_END),
      \* second flash block, numbered by another tool, data region used beyond 256
      BlockBytes(UF2_MAGIC_START0, WAdd(MEMORY_LAYOUT.FLASH_BASE, W(256)), 256, 7, 9,
                 UF2_FAMILY_IDS.RP2040, 34, 170, UF2_MAGIC_END),
      \* a block that declares 300 payload bytes
      BlockBytes(UF2_MAGIC_START0, WAdd(MEMORY_LAYOUT.FLASH_BASE, W(512)), 300, 2, 3,
                 UF2_FAMILY_IDS.RP2350, 51, 51, UF2_MAGIC_END),
      \* a block below the flash region (0x0FFFFF00)
      BlockBytes(UF2_MAGIC_START0, <<4095, 65280>>, 256, 0, 1,
                 UF2_FAMILY_IDS.RP2040, 68, 0, UF2_MAGIC_END),
      \* a block whose end magic is wrong
      BlockBytes(UF2_MAGIC_START0, MEMORY_LAYOUT.FLASH_BASE, 256, 0, 1,
                 UF2_FAMILY_IDS.RP2040, 85, 0, UF2_MAGIC_START0) }

PayloadBlockKinds ==
    { BlockBytes(UF2_MAGIC_START0, MEMORY_LAYOUT.PAYLOAD_BASE, 256, 0, 2,
                 UF2_FAMILY_IDS.RP2040, 102, 0, UF2_MAGIC_END),
      BlockBytes(UF2_MAGIC_START0, WAdd(MEMORY_LAYOUT.PAYLOAD_BASE, W(256)), 4, 1, 2,
                 UF2_FAMILY_IDS.RP2350, 119, 0, UF2_MAGIC_END),
      \* a payload block inside the flash region
      BlockBytes(UF2_MAGIC_START0, MEMORY_LAYOUT.FLASH_BASE, 256, 0, 1,
                 UF2_FAMILY_IDS.RP2040, 136, 0, UF2_MAGIC_END),
      \* a block whose first magic is wrong
      BlockBytes(UF2_MAGIC_END, MEMORY_LAYOUT.PAYLOAD_BASE, 256, 0, 1,
                 UF2_FAMILY_IDS.RP2040, 153, 0, UF2_MAGIC_END),
      \* a block whose second magic is wrong
      SetBytes(BlockBytes(UF2_MAGIC_START0, MEMORY_LAYOUT.PAYLOAD_BASE, 256, 0, 1,
                          UF2_FAMILY_IDS.RP2040, 170, 0, UF2_MAGIC_END),
               BytesLE(UF2_MAGIC_START0), 4) }

RECURSIVE ConcatAll(_)
ConcatAll(ss) == IF ss = <<>> THEN <<>> ELSE Head(ss) \o ConcatAll(Tail(ss))

\* the streams of at most MaxBlocks blocks of the given kinds, and one stream
\* whose length is no multiple of 512
StreamsOf(kinds) ==
    {ConcatAll(ss) : ss \in SeqsUpTo(kinds, MaxBlocks)} \cup {<<85, 70, 50>>}

InitMerge ==
    /\ StoreInit /\ release = NoRelease
    /\ fnIn \in [base : StreamsOf(BaseBlockKinds), payload : StreamsOf(PayloadBlockKinds)]
    /\ fnOut = <<>>
    /\ fnPc = "ready"

Merge ==
    /\ fnPc = "ready"
    /\ fnOut' = mergeUF2(fnIn.base, fnIn.payload)
    /\ fnPc' = "merged"
    /\ UNCHANGED <<fnIn, storeVars>>

NextMerge == Merge

SpecMerge == InitMerge /\ [][NextMerge]_vars

-----------------------------------------------------------------------------
(* Properties of mergeUF2, read off the input and output bytes *)

\* number of whole blocks of a stream
BlockCount(stream) == Len(stream) \div BLOCK_SIZE

\* the little-endian word at offset of block number i (from 0) of a stream
Field(stream, i, offset) == GetUint32LE(stream, i * BLOCK_SIZE + offset)

\* byte number k (from 0) of block number i (from 0) of a stream
ByteOf(stream, i, k) == stream[i * BLOCK_SIZE + k + 1]

MergeSucceeded == fnPc = "merged" /\ fnOut.ok

NB == BlockCount(fnIn.base)
NP == BlockCount(fnIn.payload)

\* start(L) and end(L) of the blocks of a non-empty stream
RangeStart(stream) == WMin({Field(stream, i, 12) : i \in 0..(BlockCount(stream) - 1)})
RangeEnd(stream) ==
    WMax({WAdd(Field(stream, i, 12), Field(stream, i, 16)) : i \in 0..(BlockCount(stream) - 1)})

\* [start, end) of the base blocks and of the payload blocks do not intersect
RangesDisjoint ==
    \/ WLe(RangeEnd(fnIn.base), RangeStart(fnIn.payload))
    \/ WLe(RangeEnd(fnIn.payload), RangeStart(fnIn.base))

\* the bytes of a block outside the block_no and total_blocks fields
OutsideNumbering == (0..(BLOCK_SIZE - 1)) \ (20..27)

\* the 220 bytes of a block between the 256 data bytes and the end magic
DataTail == (32 + PAYLOAD_SIZE)..507

\* C5 as stated: every base block comes out byte-identical outside bytes 20..27
C5_BasePreservedOutsideNumbering ==
    MergeSucceeded =>
        \A i \in 0..(NB - 1) : \A k \in OutsideNumbering :
            ByteOf(fnOut.val.data, i, k) = ByteOf(fnIn.base, i, k)

\* C5: every base block comes out at the same position byte-identical outside
\* the block_no and total_blocks fields (bytes 20..27) and outside bytes
\* 288..507 of the data region, which come out zero
C5_BasePreservedOutsideNumberingAndTail ==
    MergeSucceeded =>
        \A i \in 0..(NB - 1) :
            /\ \A k \in OutsideNumbering \ DataTail :
                  ByteOf(fnOut.val.data, i, k) = ByteOf(fnIn.base, i, k)
            /\ \A k \in DataTail : ByteOf(fnOut.val.data, i, k) = 0

\* a merge succeeded on a base block that uses bytes 288..507, with payload
\* blocks after it
C5_Witness ==
    /\ MergeSucceeded /\ NB > 0 /\ NP > 0
    /\ \E i \in 0..(NB - 1) : \E k \in DataTail : ByteOf(fnIn.base, i, k) # 0

\* C6: after a successful merge of N = |B| + |P| blocks, output block i has
\* block_no = i and every output block has total_blocks = N, whatever the
\* input blocks carried in these fields
C6_Renumbered ==
    MergeSucceeded =>
        /\ BlockCount(fnOut.val.data) = NB + NP
        /\ \A i \in 0..(NB + NP - 1) :
              /\ Field(fnOut.val.data, i, 20) = W(i)
              /\ Field(fnOut.val.data, i, 24) = W(NB + NP)

\* a merge succeeded on a base block that carried another number and total
C6_Witness ==
    /\ MergeSucceeded /\ NB + NP >= 2
    /\ \E i \in 0..(NB - 1) :
          Field(fnIn.base, i, 20) # W(i) /\ Field(fnIn.base, i, 24) # W(NB + NP)

C8_EmittedBlocksValid ==
    MergeSucceeded =>
        \A i \in 0..(BlockCount(fnOut.val.data) - 1) :
            /\ Field(fnOut.val.data, i, 0) = UF2_MAGIC_START0
            /\ Field(fnOut.val.data, i, 4) = UF2_MAGIC_START1
            /\ Field(fnOut.val.data, i, 508) = UF2_MAGIC_END
            /\ WLe(Field(fnOut.val.data, i, 16), W(PAYLOAD_SIZE))

\* the bytes of a block that merging neither renumbers nor clears
Carried == OutsideNumbering \ DataTail

\* C10: the merged stream is the base blocks in their input order followed by
\* the payload blocks in theirs: its length is 512 * (|B| + |P|), totalBlocks
\* is baseBlocks + payloadBlocks, and output block i comes from base block i
\* when i < |B| and from payload block i - |B| otherwise
C10_BaseThenPayload ==
    MergeSucceeded =>
        /\ Len(fnOut.val.data) = BLOCK_SIZE * (NB + NP)
        /\ fnOut.val.baseBlocks = NB
        /\ fnOut.val.payloadBlocks = NP
        /\ fnOut.val.totalBlocks = fnOut.val.baseBlocks + fnOut.val.payloadBlocks
        /\ \A i \in 0..(NB + NP - 1) : \A k \in Carried :
              ByteOf(fnOut.val.data, i, k) =
                  IF i < NB THEN ByteOf(fnIn.base, i, k)
                  ELSE ByteOf(fnIn.payload, i - NB, k)

\* a merge succeeded on two different base blocks and two different payload
\* blocks
C10_Witness ==
    /\ MergeSucceeded /\ NB = 2 /\ NP = 2
    /\ fnOut.val.totalBlocks = 4
    /\ Field(fnIn.base, 0, 12) # Field(fnIn.base, 1, 12)
    /\ Field(fnIn.payload, 0, 12) # Field(fnIn.payload, 1, 12)

\* a stream mergeUF2 must refuse: its length is no multiple of 512, or one of
\* its blocks, at any position, has a wrong magic0, magic1 or end magic
Malformed(stream) ==
    \/ Len(stream) % BLOCK_SIZE # 0
    \/ \E i \in 0..(BlockCount(stream) - 1) :
          \/ Field(stream, i, 0) # UF2_MAGIC_START0
          \/ Field(stream, i, 4) # UF2_MAGIC_START1
          \/ Field(stream, i, 508) # UF2_MAGIC_END

\* C11: whenever either input has a length that is no multiple of 512 or
\* contains a block, at any position, whose magic0, magic1 or end magic is
\* wrong, the merge fails and returns no stream at all
C11_MalformedInputFails ==
    (fnPc = "merged" /\ (Malformed(fnIn.base) \/ Malformed(fnIn.payload))) =>
        /\ ~fnOut.ok
        /\ DOMAIN fnOut = {"ok", "err"}

\* a merge failed on a base stream whose first block is well-formed and whose
\* second block has a wrong end magic, with a well-formed payload stream
C11_Witness ==
    /\ fnPc = "merged" /\ ~fnOut.ok
    /\ NB = 2 /\ NP > 0 /\ ~Malformed(fnIn.payload)
    /\ Field(fnIn.base, 0, 0) = UF2_MAGIC_START0
    /\ Field(fnIn.base, 0, 4) = UF2_MAGIC_START1
    /\ Field(fnIn.base, 0, 508) = UF2_MAGIC_END
    /\ Field(fnIn.base, 1, 508) # UF2_MAGIC_END

\* the input block that output block i of a merge comes from
SourceStream(i) == IF i < NB THEN fnIn.base ELSE fnIn.payload
SourceIndex(i) == IF i < NB THEN i ELSE i - NB

\* the family tags of the blocks of a stream
FamilyTags(stream) == {Field(stream, i, 28) : i \in 0..(BlockCount(stream) - 1)}

\* C12: a successful merge changes only block_no and total_blocks: every
\* output block has the flags, target address, payload_size, family tag and
\* 256-byte data region of the input block it comes from, so the output tags
\* are all identical exactly when the input tags are
C12_OnlyNumberingChanges ==
    MergeSucceeded =>
        /\ \A i \in 0..(NB + NP - 1) :
              /\ \A offset \in {8, 12, 16, 28} :
                    Field(fnOut.val.data, i, offset) =
                        Field(SourceStream(i), SourceIndex(i), offset)
              /\ SliceBytes(fnOut.val.data, i * BLOCK_SIZE + 32,
                            i * BLOCK_SIZE + 32 + PAYLOAD_SIZE) =
                     SliceBytes(SourceStream(i), SourceIndex(i) * BLOCK_SIZE + 32,
                                SourceIndex(i) * BLOCK_SIZE + 32 + PAYLOAD_SIZE)
        /\ (Cardinality(FamilyTags(fnOut.val.data)) <= 1) <=>
               (Cardinality(FamilyTags(fnIn.base) \cup FamilyTags(fnIn.payload)) <= 1)

\* a merge succeeded on blocks that carry two different family tags
C12_Witness ==
    /\ MergeSucceeded /\ NB > 0 /\ NP > 0
    /\ Cardinality(FamilyTags(fnIn.base) \cup FamilyTags(fnIn.payload)) = 2
    /\ Cardinality(FamilyTags(fnOut.val.data)) = 2

-----------------------------------------------------------------------------
(* Properties of buildFirmware, read off the calls' locals and the store *)

\* the phases of the pipeline in the order of lines 123-145
PipelinePhases == <<"parse", "validate", "scramble", "wrap", "encode", "merge">>

PhaseRan(c, phase) == \E i \in DOMAIN calls[c].phases : calls[c].phases[i] = phase

LastPhase(c) == calls[c].phases[Len(calls[c].phases)]

IsPrefix(s, t) == Len(s) <= Len(t) /\ SubSeq(t, 1, Len(s)) = s

\* C1 as stated: the body of the wrapped payload a build produces is
\* scramble(dol), the DOL file scrambled once, then zero bytes up to a
\* multiple of 4, then "PICO"
C1_BodyIsDolScrambledOnce ==
    \A c \in Calls :
        PhaseRan(c, "wrap") =>
            LET dol == calls[c].dolFile
                body == calls[c].wrapped.payload
                alignedSize == CeilTo(Len(dol), ALIGN_SIZE)
            IN  /\ Len(body) = alignedSize + 4
                /\ SubSeq(body, 1, Len(dol)) = scramble(dol)
                /\ \A k \in (Len(dol) + 1)..alignedSize : body[k] = 0
                /\ SubSeq(body, alignedSize + 1, alignedSize + 4) = PICO_SIGNATURE

\* the bytes the encode phase is to encode: the 12-byte header, then the body
FramedPayload(c) == calls[c].wrapped.header \o calls[c].wrapped.payload

\* C2 as stated: the encode phase of a build yields the UF2 encoding of the
\* IPLBOOT header followed by the wrapped body: one block per 256 bytes, the
\* first at PAYLOAD_BASE, each with the family tag of the selected platform
C2_PayloadStreamEncodesFramedPayload ==
    \A c \in Calls :
        (calls[c].phases # <<>> /\ LastPhase(c) = "encode") =>
            /\ calls[c].raised = Null
            /\ LET bytes == FramedPayload(c)
                   stream == calls[c].payloadUF2.data
                   count == (Len(bytes) + PAYLOAD_SIZE - 1) \div PAYLOAD_SIZE
               IN  /\ Len(stream) = BLOCK_SIZE * count
                   /\ \A i \in 0..(count - 1) :
                         /\ Field(stream, i, 0) = UF2_MAGIC_START0
                         /\ Field(stream, i, 4) = UF2_MAGIC_START1
                         /\ Field(stream, i, 508) = UF2_MAGIC_END
                         /\ Field(stream, i, 12) =
                               WAdd(MEMORY_LAYOUT.PAYLOAD_BASE, W(i * PAYLOAD_SIZE))
                         /\ Field(stream, i, 20) = W(i)
                         /\ Field(stream, i, 24) = W(count)
                         /\ Field(stream, i, 28) = UF2_FAMILY_IDS[platform]
                         /\ \A k \in 1..PAYLOAD_SIZE :
                               i * PAYLOAD_SIZE + k <= Len(bytes) =>
                                   ByteOf(stream, i, 31 + k) = bytes[i * PAYLOAD_SIZE + k]

\* C9: a build runs its phases in the order parse, validate, (scramble,) wrap,
\* encode, merge; when a phase throws, that phase is the last the build runs,
\* the build writes no firmware output, and the message shown is the error
\* thrown, unchanged
C9_PhasesInOrderFirstErrorSurfaced ==
    \A c \in Calls :
        /\ IsPrefix(calls[c].phases, PipelinePhases)
        /\ calls[c].failedAt \in SyncPcs =>
              /\ calls[c].pc = "done"
              /\ LastPhase(c) = calls[c].failedAt
              /\ ~calls[c].wrote
              /\ calls[c].mergeResult = Null
        /\ calls[c].raised # Null =>
              /\ calls[c].pc = "done"
              /\ calls[c].surfaced = calls[c].raised
              /\ \E i \in DOMAIN toasts :
                    toasts[i] = [kind |-> "error", description |-> calls[c].raised]

\* a build has failed in its last phase, the merge, after the five before it
C9_Witness ==
    \E c \in Calls :
        /\ calls[c].failedAt = "merge"
        /\ calls[c].phases = PipelinePhases
        /\ calls[c].surfaced = calls[c].raised
        /\ ~calls[c].wrote

-----------------------------------------------------------------------------
(* SpecWrap: wrapPayload applied to a raw input, validateWrappedPayload
   applied to its result *)

\* the raw input of the wrapper's tests: 100 zero bytes
ZeroRaw == Zeros(100)

InitWrap ==
    /\ StoreInit /\ release = NoRelease
    /\ fnIn \in SeqsUpTo(SampleBytes, MaxLen) \cup {ZeroRaw}
    /\ fnOut = <<>>
    /\ fnPc = "ready"

Wrap ==
    /\ fnPc = "ready"
    /\ fnOut' = wrapPayload(fnIn)
    /\ fnPc' = "wrapped"
    /\ UNCHANGED <<fnIn, storeVars>>

Validate ==
    /\ fnPc = "wrapped"
    /\ fnOut' = [wrapped |-> fnOut, verdict |-> validateWrappedPayload(fnOut)]
    /\ fnPc' = "validated"
    /\ UNCHANGED <<fnIn, storeVars>>

NextWrap == Wrap \/ Validate

SpecWrap == InitWrap /\ [][NextWrap]_vars

\* C13 as stated: for a raw input of n bytes wrap returns a 12-byte header, a
\* body of exactly 4 * ceil(n / 4) + 4 bytes and total = 12 + len(body), and
\* header bytes 8..11 hold len(body) + 32 big-endian; for n = 0 the body is
\* "PICO" and the size field 36, for n = 100 the body has 104 bytes and the
\* size field is 0x84
C13_WrapSizesWithSizeField84 ==
    fnPc = "wrapped" =>
        LET n == Len(fnIn)
        IN  /\ Len(fnOut.header) = 12
            /\ Len(fnOut.payload) = 4 * ((n + 3) \div 4) + 4
            /\ fnOut.totalSize = 12 + Len(fnOut.payload)
            /\ SliceBytes(fnOut.header, 8, 12) = BytesBE(W(Len(fnOut.payload) + 32))
            /\ n = 0 => /\ fnOut.payload = <<80, 73, 67, 79>>
                        /\ SliceBytes(fnOut.header, 8, 12) = <<0, 0, 0, 36>>
            /\ n = 100 => /\ Len(fnOut.payload) = 104
                          /\ SliceBytes(fnOut.header, 8, 12) = <<0, 0, 0, 132>>

\* C13: for a raw input of n bytes wrap returns a 12-byte header, a body of
\* exactly 4 * ceil(n / 4) + 4 bytes and total = 12 + len(body), and header
\* bytes 8..11 hold len(body) + 32 big-endian; for n = 0 the body is "PICO"
\* and the size field 36, for n = 100 the body has 104 bytes and the size
\* field is 0x88 (136 = 104 + 32)
C13_WrapSizes ==
    fnPc = "wrapped" =>
        LET n == Len(fnIn)
        IN  /\ Len(fnOut.header) = 12
            /\ Len(fnOut.payload) = 4 * ((n + 3) \div 4) + 4
            /\ fnOut.totalSize = 12 + Len(fnOut.payload)
            /\ SliceBytes(fnOut.header, 8, 12) = BytesBE(W(Len(fnOut.payload) + 32))
            /\ n = 0 => /\ fnOut.payload = <<80, 73, 67, 79>>
                        /\ SliceBytes(fnOut.header, 8, 12) = <<0, 0, 0, 36>>
            /\ n = 100 => /\ Len(fnOut.payload) = 104
                          /\ SliceBytes(fnOut.header, 8, 12) = <<0, 0, 0, 136>>

\* the 100 zero bytes have been wrapped into a body of 104 bytes
C13_Witness ==
    /\ fnPc = "wrapped" /\ Len(fnIn) = 100
    /\ Len(fnOut.payload) = 104 /\ fnOut.totalSize = 116
    /\ SliceBytes(fnOut.header, 8, 12) = <<0, 0, 0, 136>>

\* C14: for every raw x, w = wrap(x) has header[0..8) = "IPLBOOT ", the last
\* 4 body bytes "PICO", and validate(w) accepts
C14_WrappedValidates ==
    fnPc = "validated" =>
        /\ SliceBytes(fnOut.wrapped.header, 0, 8) = <<73, 80, 76, 66, 79, 79, 84, 32>>
        /\ LastBytes(fnOut.wrapped.payload, 4) = <<80, 73, 67, 79>>
        /\ fnOut.verdict.ok

\* the wrapping of a non-empty input has been validated and accepted
C14_Witness ==
    /\ fnPc = "validated" /\ Len(fnIn) > 0 /\ fnOut.wrapped = wrapPayload(fnIn)
    /\ fnOut.verdict.ok

-----------------------------------------------------------------------------
(* SpecEncode: encodeToUF2 applied to the same bytes and base address, once
   for each platform *)

\* a buffer that fills one block exactly, and one byte more
FullChunk == [i \in 1..256 |-> (7 * i) % 256] \o <<>>
FullChunkAndOne == FullChunk \o <<1>>

BaseAddresses == {MEMORY_LAYOUT.PAYLOAD_BASE, MEMORY_LAYOUT.FLASH_BASE}

InitEncode ==
    /\ StoreInit /\ release = NoRelease
    /\ fnIn \in [bytes : SeqsUpTo(SampleBytes, MaxLen) \cup {FullChunk, FullChunkAndOne},
                 baseAddress : BaseAddresses]
    /\ fnOut = <<>>
    /\ fnPc = "ready"

\* one call of encodeToUF2 for a platform not yet encoded for
Encode(p) ==
    /\ \A k \in DOMAIN fnOut : fnOut[k].platform # p
    /\ \E r \in encodeToUF2(Uint8Array(fnIn.bytes),
                            [platform |-> JsString(p),
                             baseAddress |-> JsNumber(fnIn.baseAddress)]) :
          fnOut' = Append(fnOut, [platform |-> p, result |-> r])
    /\ fnPc' = "encoded"
    /\ UNCHANGED <<fnIn, storeVars>>

NextEncode == \E p \in Platforms : Encode(p)

SpecEncode == InitEncode /\ [][NextEncode]_vars

\* N = ceil(n / 256)
ChunkCount(n) == (n + 255) \div 256

\* C15: encode of n bytes yields N = ceil(n / 256) blocks (none for n = 0) in
\* a stream of 512 * N bytes; block i has the three magics, target_addr =
\* base + 256 * i, block_no = i, total_blocks = N, the requested family tag,
\* and payload_size 256 except possibly for the last block (256 bytes give
\* one block of 256, 257 bytes give blocks of 256 and 1)
C15_EncodeBlocks ==
    \A k \in DOMAIN fnOut :
        LET r == fnOut[k].result
            n == Len(fnIn.bytes)
            N == ChunkCount(n)
        IN  /\ r.ok
            /\ Len(r.val.data) = 512 * N
            /\ r.val.blockCount = N
            /\ r.val.totalSize = 512 * N
            /\ n = 0 => r.val.data = <<>>
            /\ \A i \in 0..(N - 1) :
                  /\ Field(r.val.data, i, 0) = UF2_MAGIC_START0
                  /\ Field(r.val.data, i, 4) = UF2_MAGIC_START1
                  /\ Field(r.val.data, i, 508) = UF2_MAGIC_END
                  /\ Field(r.val.data, i, 12) = WAdd(fnIn.baseAddress, W(256 * i))
                  /\ Field(r.val.data, i, 20) = W(i)
                  /\ Field(r.val.data, i, 24) = W(N)
                  /\ Field(r.val.data, i, 28) = UF2_FAMILY_IDS[fnOut[k].platform]
                  /\ Field(r.val.data, i, 16) =
                         IF i < N - 1 THEN W(256) ELSE W(n - 256 * (N - 1))
            /\ n = 256 => N = 1 /\ Field(r.val.data, 0, 16) = W(256)
            /\ n = 257 => /\ N = 2
                          /\ Field(r.val.data, 0, 16) = W(256)
                          /\ Field(r.val.data, 1, 16) = W(1)

\* 257 bytes have been encoded for RP2350 into two blocks
C15_Witness ==
    \E k \in DOMAIN fnOut :
        /\ fnOut[k].platform = "RP2350" /\ Len(fnIn.bytes) = 257
        /\ fnOut[k].result.ok /\ fnOut[k].result.val.blockCount = 2
        /\ Field(fnOut[k].result.val.data, 1, 28) = UF2_FAMILY_IDS.RP2350

\* the encoding made for platform p, once it has been made
EncodingFor(p) == (CHOOSE k \in DOMAIN fnOut : fnOut[k].platform = p)

\* C16: for the same bytes and base address the RP2350 encoding equals the
\* RP2040 encoding in every byte except bytes 28..31 of each block, which hold
\* 0xE48BFF59 little-endian in every RP2350 block; the familyId an encoding
\* reports is the tag written into its blocks
C16_CrossFamilyRetag ==
    /\ Len(fnOut) = 2 =>
          LET a == fnOut[EncodingFor("RP2040")].result.val.data
              b == fnOut[EncodingFor("RP2350")].result.val.data
          IN  /\ Len(a) = Len(b)
              /\ \A j \in 1..Len(a) : (j - 1) % 512 \notin 28..31 => a[j] = b[j]
              /\ \A i \in 0..(BlockCount(b) - 1) :
                    SliceBytes(b, 512 * i + 28, 512 * i + 32) = <<89, 255, 139, 228>>
    /\ \A k \in DOMAIN fnOut :
          /\ fnOut[k].result.val.familyId.type = "number"
          /\ \A i \in 0..(BlockCount(fnOut[k].result.val.data) - 1) :
                Field(fnOut[k].result.val.data, i, 28) = fnOut[k].result.val.familyId.num

\* the same 257 bytes have been encoded for both platforms, two blocks each
C16_Witness ==
    /\ Len(fnOut) = 2 /\ Len(fnIn.bytes) = 257
    /\ BlockCount(fnOut[EncodingFor("RP2350")].result.val.data) = 2
    /\ fnOut[EncodingFor("RP2040")].result.val.data #
           fnOut[EncodingFor("RP2350")].result.val.data

-----------------------------------------------------------------------------
(* SpecDol: parseDOLHeader applied to a file, validateDOL applied to the
   parsed header and the file.  Neither function reads a byte after the
   header, so a file is its first 256 bytes (fewer when it is shorter) and
   its byteLength. *)

RECURSIVE WordsBE(_)
\* DataView.setUint32(offset, w, false) for consecutive words
WordsBE(ws) == IF ws = <<>> THEN <<>> ELSE BytesBE(Head(ws)) \o WordsBE(Tail(ws))

\* a header with text sections 0 and 6 and data section 10 given as
\* <<offset, size>>; withRest also sets a data load address and the BSS words
HeaderBytes(entryPoint, textAddress, text0, text6, data10, withRest) ==
    LET z == W(0)
    IN  WordsBE(<<text0[1], z, z, z, z, z, text6[1]>>)
        \o WordsBE(<<z, z, z, z, z, z, z, z, z, z, data10[1]>>)
        \o WordsBE(<<textAddress, z, z, z, z, z, z>>)
        \o WordsBE(<<IF withRest THEN <<33072, 9600>> ELSE z, z, z, z, z, z, z, z, z, z, z>>)
        \o WordsBE(<<text0[2], z, z, z, z, z, text6[2]>>)
        \o WordsBE(<<z, z, z, z, z, z, z, z, z, z, data10[2]>>)
        \o WordsBE(<<IF withRest THEN <<33072, 61664>> ELSE z,
                     IF withRest THEN <<0, 30752>> ELSE z,
                     entryPoint>>)
        \o Zeros(28)

\* <<offset, size>> of a section: unused; unused with an offset left in the
\* header; four sections after the header, the second overlapping the first;
\* and a section at offset 0
SectionChoices ==
    { <<W(0), W(0)>>, <<W(512), W(0)>>,
      <<W(256), W(16)>>, <<W(264), W(16)>>, <<W(272), W(16)>>, <<W(288), W(32)>>,
      <<W(0), W(16)>> }

EntryPoints == {EXPECTED_ENTRY_POINT, W(0)}

\* byteLength of a file: shorter than a header, two small files, the largest
\* file allowed, one byte more, and 6 MiB
FileLengths == {255, 288, 320, DOL_MAX_SIZE, DOL_MAX_SIZE + 1, 6291456}

Headers ==
    {HeaderBytes(e, a, t0, t6, d10, r) :
        e \in EntryPoints, a \in EntryPoints,
        t0 \in SectionChoices, t6 \in SectionChoices, d10 \in SectionChoices,
        r \in BOOLEAN}

InitDol ==
    /\ StoreInit /\ release = NoRelease
    /\ \E h \in Headers, n \in FileLengths :
          fnIn = [bytes |-> SubSeq(h, 1, IF n < DOL_HEADER_SIZE THEN n ELSE DOL_HEADER_SIZE),
                  byteLength |-> n]
    /\ fnOut = <<>>
    /\ fnPc = "ready"

ParseHeader ==
    /\ fnPc = "ready"
    /\ fnOut' = [header |-> parseDOLHeader(fnIn.bytes)]
    /\ fnPc' = "parsed"
    /\ UNCHANGED <<fnIn, storeVars>>

\* validateDOL on the header that parseDOLHeader returned
ValidateFile ==
    /\ fnPc = "parsed"
    /\ fnOut.header.ok
    /\ fnOut' = [header |-> fnOut.header,
                 verdict |-> validateDOLSize(fnOut.header.val, fnIn.byteLength)]
    /\ fnPc' = "validated"
    /\ UNCHANGED <<fnIn, storeVars>>

\* extractDOLSections on the file and the header that parseDOLHeader returned,
\* before or after validateDOL
ExtractSections ==
    /\ fnPc \in {"parsed", "validated"}
    /\ fnOut.header.ok
    /\ fnOut' = [header |-> fnOut.header,
                 validated |-> IF fnPc = "validated" THEN fnOut.verdict.ok ELSE FALSE,
                 sections |-> extractDOLSections(fnIn, fnOut.header.val)]
    /\ fnPc' = "extracted"
    /\ UNCHANGED <<fnIn, storeVars>>

NextDol == ParseHeader \/ ValidateFile \/ ExtractSections

SpecDol == InitDol /\ [][NextDol]_vars

-----------------------------------------------------------------------------
(* Properties of parseDOLHeader and validateDOL, read off the file's bytes *)

\* the header bytes parseDOLHeader tests for zero: the text offsets, data
\* offsets and text load addresses (0x00..0x63) and the entry point (0xE0..0xE3)
CheckedBytes == (0..99) \cup (224..227)

\* the big-endian word at a JavaScript offset of the file is the value w
WordIs(offset, w) ==
    /\ w[1] \in 0..65535 /\ w[2] \in 0..65535
    /\ SliceBytes(fnIn.bytes, offset, offset + 4) =
           <<w[1] \div 256, w[1] % 256, w[2] \div 256, w[2] % 256>>

\* C17: parse_header rejects every input shorter than 256 bytes and every
\* header in which the entry point, the 7 text offsets, the 11 data offsets
\* and the 7 text load addresses are all zero; every other input of at least
\* 256 bytes parses into the big-endian decoded fields
C17_ParseHeader ==
    fnPc # "ready" =>
        LET r == fnOut.header
        IN  IF fnIn.byteLength < 256 THEN ~r.ok
            ELSE IF \A k \in CheckedBytes : fnIn.bytes[k + 1] = 0 THEN ~r.ok
            ELSE /\ r.ok
                 /\ Len(r.val.textOffsets) = 7 /\ Len(r.val.textAddresses) = 7
                 /\ Len(r.val.textSizes) = 7
                 /\ Len(r.val.dataOffsets) = 11 /\ Len(r.val.dataAddresses) = 11
                 /\ Len(r.val.dataSizes) = 11
                 /\ \A i \in 0..6 :
                       /\ WordIs(4 * i, r.val.textOffsets[i + 1])
                       /\ WordIs(72 + 4 * i, r.val.textAddresses[i + 1])
                       /\ WordIs(144 + 4 * i, r.val.textSizes[i + 1])
                 /\ \A i \in 0..10 :
                       /\ WordIs(28 + 4 * i, r.val.dataOffsets[i + 1])
                       /\ WordIs(100 + 4 * i, r.val.dataAddresses[i + 1])
                       /\ WordIs(172 + 4 * i, r.val.dataSizes[i + 1])
                 /\ WordIs(216, r.val.bssAddress)
                 /\ WordIs(220, r.val.bssSize)
                 /\ WordIs(224, r.val.entryPoint)

\* a header whose tested words are all zero and whose section sizes are
\* not has been rejected as all zeros
C17_Witness ==
    /\ fnPc = "parsed" /\ fnIn.byteLength >= 256
    /\ \A k \in CheckedBytes : fnIn.bytes[k + 1] = 0
    /\ \E k \in 144..215 : fnIn.bytes[k + 1] # 0
    /\ ~fnOut.header.ok
    /\ fnOut.header.err.msg = "Invalid DOL header: all zeros"

\* offset and size of section i of the 18: text 0..6, then data 0..10
SecOffset(i) == GetUint32BE(fnIn.bytes, IF i < 7 THEN 4 * i ELSE 28 + 4 * (i - 7))
SecSize(i) == GetUint32BE(fnIn.bytes, IF i < 7 THEN 144 + 4 * i ELSE 172 + 4 * (i - 7))
SecEnd(i) == WAdd(SecOffset(i), SecSize(i))
NonEmptySections == {i \in 0..17 : SecSize(i) # W(0)}

\* I1: entry point and first text load address are 0x81300000
HoldsI1 ==
    /\ SliceBytes(fnIn.bytes, 224, 228) = <<129, 48, 0, 0>>
    /\ SliceBytes(fnIn.bytes, 72, 76) = <<129, 48, 0, 0>>

\* I2: every non-empty section ends within the file, and no two non-empty
\* sections have intersecting file ranges
HoldsI2 ==
    /\ \A i \in NonEmptySections : WLe(SecEnd(i), W(fnIn.byteLength))
    /\ \A i, j \in NonEmptySections :
          i # j => WLe(SecEnd(i), SecOffset(j)) \/ WLe(SecEnd(j), SecOffset(i))

\* I3: the file has at most 5 MiB
HoldsI3 == fnIn.byteLength <= 5 * 1024 * 1024

\* the error validateDOL raised is one for I1, for I2, for I3
ErrorForI1 ==
    /\ ~fnOut.verdict.ok
    /\ fnOut.verdict.err.msg \in {"Invalid entry point", "Invalid load address"}
ErrorForI2 ==
    /\ ~fnOut.verdict.ok
    /\ fnOut.verdict.err.msg \in {"Section offset out of bounds", "Overlapping sections"}
ErrorForI3 ==
    /\ ~fnOut.verdict.ok
    /\ fnOut.verdict.err.msg = "DOL file too large"

\* C18 as stated: the error reported is the one for the earliest violated
\* invariant in the order I1, I2, I3
C18_ErrorOrderI1I2I3 ==
    fnPc = "validated" =>
        /\ ~HoldsI1 => ErrorForI1
        /\ (HoldsI1 /\ ~HoldsI2) => ErrorForI2
        /\ (HoldsI1 /\ HoldsI2 /\ ~HoldsI3) => ErrorForI3

\* C18: validate checks I3 (file length), then I1 (entry point, first text
\* load address), then I2 (section bounds, overlap): the error reported is
\* the one for the earliest violated invariant in the order I3, I1, I2
C18_ErrorOrderI3I1I2 ==
    fnPc = "validated" =>
        /\ ~HoldsI3 => ErrorForI3
        /\ (HoldsI3 /\ ~HoldsI1) => ErrorForI1
        /\ (HoldsI3 /\ HoldsI1 /\ ~HoldsI2) => ErrorForI2

\* a file that violates all three has been validated
C18_Witness ==
    /\ fnPc = "validated"
    /\ ~HoldsI1 /\ ~HoldsI2 /\ ~HoldsI3
    /\ ~fnOut.verdict.ok

\* C19: validate rejects every file longer than 5 MiB with the error 'DOL
\* file too large', as for a 6 MiB file whose header has a valid entry point
\* and nothing else set
C19_TooLargeRejected ==
    (fnPc = "validated" /\ fnIn.byteLength > 5 * 1024 * 1024) =>
        /\ ~fnOut.verdict.ok
        /\ fnOut.verdict.err.msg = "DOL file too large"
        /\ fnOut.verdict.err.args = <<fnIn.byteLength, 5 * 1024 * 1024>>

\* the 6 MiB file with a valid entry point and nothing else set has been
\* validated
C19_Witness ==
    /\ fnPc = "validated" /\ fnIn.byteLength = 6 * 1024 * 1024
    /\ SliceBytes(fnIn.bytes, 224, 228) = <<129, 48, 0, 0>>
    /\ \A k \in 0..223 : fnIn.bytes[k + 1] = 0
    /\ fnOut.verdict.err.msg = "DOL file too large"

\* C20: whenever validate succeeds, I1, I2 and I3 hold: the sort-by-offset,
\* adjacent-pair comparison misses no overlapping pair of non-empty sections,
\* sections with equal offsets included
C20_ValidatedHoldsInvariants ==
    (fnPc = "validated" /\ fnOut.verdict.ok) => HoldsI1 /\ HoldsI2 /\ HoldsI3

\* validate succeeded on a file with three non-empty sections
C20_Witness ==
    /\ fnPc = "validated" /\ fnOut.verdict.ok
    /\ Cardinality(NonEmptySections) = 3

\* the load address of section i of the 18
SecAddress(i) == GetUint32BE(fnIn.bytes, IF i < 7 THEN 72 + 4 * i ELSE 100 + 4 * (i - 7))

\* the bytes of the file at the positions of [offset, offset + size) of
\* section i: those from the offset to the section's end or the file's
SecBytes(i) ==
    IF ~WLt(SecOffset(i), W(fnIn.byteLength)) THEN <<>>
    ELSE LET lo == SecOffset(i)[1] * 65536 + SecOffset(i)[2]
             hi == IF WLe(SecEnd(i), W(fnIn.byteLength))
                   THEN SecEnd(i)[1] * 65536 + SecEnd(i)[2]
                   ELSE fnIn.byteLength
         IN  [j \in 1..(hi - lo) |-> FileByte(fnIn, lo + j - 1)]

RECURSIVE NonEmptyFrom(_, _)
\* the non-empty sections among sections i..last, in index order
NonEmptyFrom(i, last) ==
    IF i > last THEN <<>>
    ELSE (IF i \in NonEmptySections THEN <<i>> ELSE <<>>) \o NonEmptyFrom(i + 1, last)

\* the returned list is the sections kept, with their header words and bytes
ReturnsSections(returned, kept) ==
    /\ Len(returned) = Len(kept)
    /\ \A j \in 1..Len(kept) :
          /\ returned[j].offset = SecOffset(kept[j])
          /\ returned[j].address = SecAddress(kept[j])
          /\ returned[j].size = SecSize(kept[j])
          /\ returned[j].data = SecBytes(kept[j])

RECURSIVE SumOver(_, _)
\* the sum of f[j] over the indices of a sequence f of numbers
SumOver(f, n) == IF n = 0 THEN 0 ELSE SumOver(f, n - 1) + f[n]

\* C21: extract_sections returns exactly the sections whose header size is
\* non-zero, text sections in header index order and data sections in header
\* index order, each with its header offset, load address and size and a copy
\* of the file bytes in [offset, offset + size); total_size is the sum of the
\* returned sizes and, for a header that passed validate, the sum of the
\* returned data lengths
C21_ExtractSections ==
    fnPc = "extracted" =>
        LET s == fnOut.sections
            all == s.textSections \o s.dataSections
            sizes == [j \in 1..Len(all) |-> all[j].size[1] * 65536 + all[j].size[2]]
            lengths == [j \in 1..Len(all) |-> Len(all[j].data)]
        IN  /\ ReturnsSections(s.textSections, NonEmptyFrom(0, 6))
            /\ ReturnsSections(s.dataSections, NonEmptyFrom(7, 17))
            /\ s.totalSize = W(SumOver(sizes, Len(all)))
            /\ fnOut.validated => s.totalSize = W(SumOver(lengths, Len(all)))

\* sections have been extracted from a validated file with two non-empty text
\* sections, a non-empty data section and none empty with an offset
C21_Witness ==
    /\ fnPc = "extracted" /\ fnOut.validated
    /\ Len(fnOut.sections.textSections) = 2 /\ Len(fnOut.sections.dataSections) = 1
    /\ fnOut.sections.totalSize = W(64)
    /\ Len(fnOut.sections.dataSections[1].data) = 32

-----------------------------------------------------------------------------
(* The core operations on a heap.  A JavaScript buffer, array or object is a
   cell of the heap and a variable holds a reference to it (the cell's index);
   an operation allocates cells and stores into cells, and what it stores is
   computed by the operators above.  A typed-array constructor on a length or
   on another typed array, slice, map and a spread allocate; set, an indexed
   assignment, a DataView write, push and sort store into an existing cell. *)

\* the reference the next allocation returns
NewRef(h) == Len(h) + 1

Alloc(h, v) == Append(h, v)

Store(h, ref, v) == [h EXCEPT ![ref] = v]

\* scramble whose step 2 works on the caller's buffer: no prepended copy, the
\* keystream is applied to data itself
scrambleHeapInPlace(h, data) ==
    LET scrambled == scrambleSteps(h[data])
        h1 == Store(h, data, scrambled)
    IN  [heap |-> Alloc(h1, scrambled), ret |-> NewRef(h1), ok |-> TRUE]

\* the one element of a set of one element (binds a value that is computed
\* once)
Only(S) == CHOOSE x \in S : TRUE

\* scramble (lines 32-42) and applyShiftRegisterScrambling (lines 58-119)
scrambleHeap(h, data) ==
    LET prepended == NewRef(h)
        h1 == Alloc(h, Zeros(PREPEND_SIZE + Len(h[data])))
        h2 == Store(h1, prepended, SetBytes(h1[prepended], h1[data], PREPEND_SIZE))
        result == NewRef(h2)
        h3 == Alloc(h2, h2[prepended])                     \* new Uint8Array(data)
    IN  Only({ [heap |-> Alloc(Store(h3, result, scrambled),
                               SliceBytes(scrambled, PREPEND_SIZE, Len(scrambled))),
                ret |-> result + 1, ok |-> TRUE] :
               scrambled \in {applyShiftRegisterScrambling(h3[result])} })

\* createIPLBOOTHeader: the header buffer, its 8 indexed assignments and the
\* DataView write
createIPLBOOTHeaderHeap(h, size) ==
    LET header == NewRef(h)
        h1 == Alloc(h, Zeros(12))
        h2 == Store(h1, header, SetBytes(h1[header], IPLBOOT_MAGIC, 0))
    IN  [heap |-> Store(h2, header, SetBytes(h2[header], BytesBE(W(size)), 8)),
         ret |-> header, ok |-> TRUE]

\* wrapPayload after its call of scramble
wrapScrambledHeap(h, scrambled) ==
    LET alignedSize == CeilTo(Len(h[scrambled]), ALIGN_SIZE)
        withSignature == NewRef(h)
        h1 == Alloc(h, Zeros(alignedSize + 4))
        h2 == Store(h1, withSignature, SetBytes(h1[withSignature], h1[scrambled], 0))
        h3 == Store(h2, withSignature, SetBytes(h2[withSignature], PICO_SIGNATURE, alignedSize))
        hd == createIPLBOOTHeaderHeap(h3, Len(h3[withSignature]) + IPLBOOT_HEADER_SIZE)
    IN  [heap |-> Alloc(hd.heap, [header |-> hd.ret, payload |-> withSignature,
                                  totalSize |-> Len(hd.heap[hd.ret]) + Len(hd.heap[withSignature])]),
         ret |-> NewRef(hd.heap), ok |-> TRUE]

wrapPayloadHeap(h, data) ==
    Only({ wrapScrambledHeap(s.heap, s.ret) : s \in {scrambleHeap(h, data)} })

\* parseDOLHeader reads through a DataView of data and returns a new object
parseDOLHeaderHeap(h, data) ==
    LET parsed == parseDOLHeader(h[data])
    IN  IF parsed.ok THEN [heap |-> Alloc(h, parsed.val), ret |-> NewRef(h), ok |-> TRUE]
        ELSE [heap |-> h, ret |-> 0, ok |-> FALSE]

\* validateDOL: the only cell written is the sections array that
\* checkOverlappingSections fills and sorts, when the checks before it pass
validateDOLHeap(h, header, data) ==
    LET secs == collectSections(h[header])
        outOfBounds == {k \in 1..Len(secs) :
                          ~validateSection(secs[k].offset, secs[k].size, Len(h[data]),
                                           secs[k].name).ok}
        sections == NewRef(h)
        h1 == Alloc(h, secs)
        h2 == Store(h1, sections, sortByOffset(h1[sections]))
    IN  IF \/ Len(h[data]) > DOL_MAX_SIZE
           \/ h[header].entryPoint # EXPECTED_ENTRY_POINT
           \/ h[header].textAddresses[1] # EXPECTED_ENTRY_POINT
           \/ outOfBounds # {}
        THEN [heap |-> h, ret |-> 0, ok |-> FALSE]
        ELSE [heap |-> h2, ret |-> 0, ok |-> checkAdjacent(h2[sections]).ok]

\* extractDOLSections: the sections come from data.slice and are pushed on
\* two new arrays
extractDOLSectionsHeap(h, data, header) ==
    [heap |-> Alloc(h, extractDOLSections([bytes |-> h[data], byteLength |-> Len(h[data])],
                                          h[header])),
     ret |-> NewRef(h), ok |-> TRUE]

\* patchFamilyId: result is a copy of uf2Data, each DataView is on result.buffer
patchFamilyIdHeap(h, uf2Data, newFamilyId) ==
    LET result == NewRef(h)
        h1 == Alloc(h, h[uf2Data])
    IN  [heap |-> Store(h1, result, patchFamilyId(h1[result], newFamilyId)),
         ret |-> result, ok |-> TRUE]

\* encodeToUF2 on bytes and a numeric address: convertBinToUf2 returns a new
\* buffer, patchFamilyId works on it
encodeToUF2Heap(h, data, plat, baseAddress) ==
    LET uf2Data == NewRef(h)
        h1 == Alloc(h, uf2BlocksFrom(h[data], baseAddress, UF2_FAMILY_IDS.RP2040,
                                     (Len(h[data]) + 255) \div 256, 0))
    IN  IF plat = "RP2350" THEN patchFamilyIdHeap(h1, uf2Data, UF2_FAMILY_IDS.RP2350)
        ELSE [heap |-> h1, ret |-> uf2Data, ok |-> TRUE]

RECURSIVE parseBlocksHeapFrom(_, _, _, _)
\* the loop of parseUF2Blocks from block i (from 0) on: blockData is a slice of
\* uf2Data, the block's data a slice of blockData, and the block is pushed
parseBlocksHeapFrom(h, uf2Data, blocks, i) ==
    IF i >= Len(h[uf2Data]) \div BLOCK_SIZE THEN [heap |-> h, ret |-> blocks, ok |-> TRUE]
    ELSE LET blockData == NewRef(h)
             h1 == Alloc(h, SliceBytes(h[uf2Data], i * BLOCK_SIZE, i * BLOCK_SIZE + BLOCK_SIZE))
             block == parseBlock(h1[blockData])
             data == NewRef(h1)
             h2 == Alloc(h1, block.val.data)
             h3 == Store(h2, blocks, Append(h2[blocks], [block.val EXCEPT !.data = data]))
         IN  IF ~block.ok THEN [heap |-> h1, ret |-> 0, ok |-> FALSE]
             ELSE parseBlocksHeapFrom(h3, uf2Data, blocks, i + 1)

parseUF2BlocksHeap(h, uf2Data) ==
    IF Len(h[uf2Data]) % BLOCK_SIZE # 0 THEN [heap |-> h, ret |-> 0, ok |-> FALSE]
    ELSE parseBlocksHeapFrom(Alloc(h, <<>>), uf2Data, NewRef(h), 0)

\* renumberBlocks: map returns a new array of new objects, which share the
\* data buffers of the old ones
renumberBlocksHeap(h, blocks) ==
    [heap |-> Alloc(h, renumberBlocks(h[blocks])), ret |-> NewRef(h), ok |-> TRUE]

RECURSIVE serializeBlocksHeapFrom(_, _, _, _)
\* serializeBlocks from block index (from 1) on: serializeBlock fills a new
\* 512-byte buffer, which is copied into result
serializeBlocksHeapFrom(h, blocks, result, index) ==
    IF index > Len(h[blocks]) THEN [heap |-> h, ret |-> result, ok |-> TRUE]
    ELSE LET blockData == NewRef(h)
             h1 == Alloc(h, Zeros(BLOCK_SIZE))
             h2 == Store(h1, blockData,
                         serializeBlock([h1[blocks][index] EXCEPT !.data = h1[@]]))
             h3 == Store(h2, result,
                         SubSeq(h2[result], 1, (index - 1) * BLOCK_SIZE) \o h2[blockData]
                         \o SubSeq(h2[result], index * BLOCK_SIZE + 1, Len(h2[result])))
         IN  serializeBlocksHeapFrom(h3, blocks, result, index + 1)

mergeUF2Heap(h, baseFirmware, payloadFirmware) ==
    LET base == parseUF2BlocksHeap(h, baseFirmware)
        payload == parseUF2BlocksHeap(base.heap, payloadFirmware)
        h1 == payload.heap
        allBlocks == NewRef(h1)
        h2 == Alloc(h1, combineBlocks(h1[base.ret], h1[payload.ret]))
        renumbered == renumberBlocksHeap(h2, allBlocks)
        h3 == renumbered.heap
        result == NewRef(h3)
        h4 == Alloc(h3, Zeros(Len(h3[renumbered.ret]) * BLOCK_SIZE))
    IN  IF ~base.ok THEN base
        ELSE IF ~payload.ok THEN payload
        ELSE IF ~validateMemoryLayout(h1[base.ret], h1[payload.ret]).ok
        THEN [heap |-> h1, ret |-> 0, ok |-> FALSE]
        ELSE serializeBlocksHeapFrom(h4, renumbered.ret, result, 1)

-----------------------------------------------------------------------------
(* SpecFrame: one core operation applied to buffers on a heap *)

\* a valid file whose text section 6 lies before its text section 0
TwoSectionDol ==
    HeaderBytes(EXPECTED_ENTRY_POINT, EXPECTED_ENTRY_POINT,
                <<W(272), W(16)>>, <<W(256), W(16)>>, <<W(0), W(0)>>, FALSE)
    \o [k \in 1..32 |-> k]

\* byte buffers a caller may pass: short ones, DOL files, UF2 streams
FirstBuffers ==
    SeqsUpTo({0, 255}, MaxLen) \cup
    { GoodDol, BadEntryDol, TwoSectionDol,
      GoodBase(UF2_FAMILY_IDS.RP2040), BadMagicBase, FullChunkAndOne,
      \* one block numbered 7 of 9
      BlockBytes(UF2_MAGIC_START0, MEMORY_LAYOUT.FLASH_BASE, 256, 7, 9,
                 UF2_FAMILY_IDS.RP2040, 34, 170, UF2_MAGIC_END) }

SecondBuffers ==
    { <<>>,
      BlockBytes(UF2_MAGIC_START0, MEMORY_LAYOUT.PAYLOAD_BASE, 256, 0, 1,
                 UF2_FAMILY_IDS.RP2040, 102, 0, UF2_MAGIC_END),
      BlockBytes(UF2_MAGIC_START0, MEMORY_LAYOUT.FLASH_BASE, 256, 0, 1,
                 UF2_FAMILY_IDS.RP2040, 136, 0, UF2_MAGIC_END) }

\* fnIn is the heap before the call: the caller's two buffers
InitFrame ==
    /\ StoreInit /\ release = NoRelease
    /\ \E a \in FirstBuffers, b \in SecondBuffers : fnIn = <<a, b>>
    /\ fnOut = <<>>
    /\ fnPc = "ready"

\* an operation was called on the heap before and left the heap after
Called(op, before, outcome) ==
    /\ fnPc = "ready"
    /\ fnOut' = [op |-> op, before |-> before, after |-> outcome.heap, ok |-> outcome.ok]
    /\ fnPc' = "returned"
    /\ UNCHANGED <<fnIn, storeVars>>

FrameParseHeader == Called("parse_header", fnIn, parseDOLHeaderHeap(fnIn, 1))

FrameValidate ==
    LET header == parseDOLHeaderHeap(fnIn, 1)
    IN  header.ok /\ Called("validate", header.heap,
                            validateDOLHeap(header.heap, header.ret, 1))

FrameExtract ==
    LET header == parseDOLHeaderHeap(fnIn, 1)
    IN  header.ok /\ Called("extract_sections", header.heap,
                            extractDOLSectionsHeap(header.heap, 1, header.ret))

FrameScramble == Called("scramble", fnIn, scrambleHeap(fnIn, 1))

FrameWrap == Called("wrap", fnIn, wrapPayloadHeap(fnIn, 1))

FrameEncode(p) ==
    Called("encode", fnIn, encodeToUF2Heap(fnIn, 1, p, MEMORY_LAYOUT.PAYLOAD_BASE))

FrameParseBlocks == Called("parseUF2Blocks", fnIn, parseUF2BlocksHeap(fnIn, 1))

FrameRenumber ==
    LET blocks == parseUF2BlocksHeap(fnIn, 1)
    IN  blocks.ok /\ Called("renumberBlocks", blocks.heap,
                            renumberBlocksHeap(blocks.heap, blocks.ret))

FrameMerge == Called("merge", fnIn, mergeUF2Heap(fnIn, 1, 2))

NextFrame ==
    \/ FrameParseHeader \/ FrameValidate \/ FrameExtract
    \/ FrameScramble \/ FrameWrap
    \/ \E p \in Platforms : FrameEncode(p)
    \/ FrameParseBlocks \/ FrameRenumber \/ FrameMerge

SpecFrame == InitFrame /\ [][NextFrame]_vars

\* C22: no core operation mutates its inputs: after parse_header, validate,
\* extract_sections, scramble, wrap, encode, parseUF2Blocks, renumberBlocks
\* and merge return or fail, every buffer, header and block list that existed
\* before the call is equal to what it was
C22_InputsNotMutated ==
    fnPc = "returned" =>
        /\ Len(fnOut.after) >= Len(fnOut.before)
        /\ \A ref \in 1..Len(fnOut.before) : fnOut.after[ref] = fnOut.before[ref]

\* a merge of a block numbered 7 of 9 with another block has returned a new
\* stream of two blocks, renumbered
C22_Witness ==
    /\ fnPc = "returned" /\ fnOut.op = "merge" /\ fnOut.ok
    /\ Len(fnOut.before[1]) = BLOCK_SIZE
    /\ GetUint32LE(fnOut.before[1], 20) = W(7)
    /\ \E ref \in (Len(fnOut.before) + 1)..Len(fnOut.after) :
          /\ Len(fnOut.after[ref]) = 2 * BLOCK_SIZE
          /\ GetUint32LE(fnOut.after[ref], 20) = W(0)
          /\ GetUint32LE(fnOut.after[ref], 24) = W(2)

-----------------------------------------------------------------------------
(* The order of the layout checks of mergeUF2 *)

\* [start, end) of the base blocks and of the payload blocks have an address
\* in common
RangesIntersect ==
    WLt(WMax({RangeStart(fnIn.base), RangeStart(fnIn.payload)}),
        WMin({RangeEnd(fnIn.base), RangeEnd(fnIn.payload)}))

\* C24: when both streams parse into non-empty block lists whose ranges
\* intersect, the merge fails with the memory-overlap error, which cites
\* start and end of the base range and of the payload range, also when the
\* base blocks start below FLASH_BASE
C24_OverlapReportedFirst ==
    (/\ fnPc = "merged"
     /\ ~Malformed(fnIn.base) /\ ~Malformed(fnIn.payload)
     /\ NB > 0 /\ NP > 0
     /\ RangesIntersect) =>
        /\ ~fnOut.ok
        /\ fnOut.err.msg = "Memory overlap detected"
        /\ fnOut.err.args = <<RangeStart(fnIn.base), RangeEnd(fnIn.base),
                              RangeStart(fnIn.payload), RangeEnd(fnIn.payload)>>

\* a merge has failed on base blocks that start below FLASH_BASE and reach
\* into a payload block
C24_Witness ==
    /\ fnPc = "merged" /\ ~fnOut.ok
    /\ ~Malformed(fnIn.base) /\ ~Malformed(fnIn.payload)
    /\ NB > 0 /\ NP > 0
    /\ RangesIntersect
    /\ WLt(RangeStart(fnIn.base), MEMORY_LAYOUT.FLASH_BASE)

-----------------------------------------------------------------------------
(* The layout of the body wrapPayload returns *)

\* C25: for a raw input of n bytes and aligned = 4 * ceil(n / 4), the body of
\* wrap(raw) holds scramble(raw) in bytes [0, n), zeros in [n, aligned) and
\* 0x50 0x49 0x43 0x4F in [aligned, aligned + 4)
C25_BodyLayout ==
    fnPc = "wrapped" =>
        LET n == Len(fnIn)
            aligned == 4 * ((n + 3) \div 4)
            body == fnOut.payload
        IN  /\ Len(body) >= aligned + 4
            /\ SliceBytes(body, 0, n) = scramble(fnIn)
            /\ \A k \in n..(aligned - 1) : body[k + 1] = 0
            /\ SliceBytes(body, aligned, aligned + 4) = <<80, 73, 67, 79>>

\* an input of 3 bytes has been wrapped: one byte of padding, scrambled bytes
\* that differ from the input
C25_Witness ==
    /\ fnPc = "wrapped" /\ Len(fnIn) = 3
    /\ fnOut.payload[4] = 0
    /\ SliceBytes(fnOut.payload, 0, 3) # fnIn
    /\ SliceBytes(fnOut.payload, 4, 8) = PICO_SIGNATURE

-----------------------------------------------------------------------------
(* SpecKeystream: scramble applied to two byte sequences and to their
   concatenation *)

InitKeystream ==
    /\ StoreInit /\ release = NoRelease
    /\ fnIn \in [x : SeqsUpTo(SampleBytes, MaxLen), y : SeqsUpTo({1, 255}, MaxLen)]
    /\ fnOut = <<>>
    /\ fnPc = "ready"

ScrambleBoth ==
    /\ fnPc = "ready"
    /\ fnOut' = [x |-> scramble(fnIn.x), y |-> scramble(fnIn.y),
                 xy |-> scramble(fnIn.x \o fnIn.y)]
    /\ fnPc' = "scrambled"
    /\ UNCHANGED <<fnIn, storeVars>>

NextKeystream == ScrambleBoth

SpecKeystream == InitKeystream /\ [][NextKeystream]_vars

\* C26: for two inputs x and y of the same length, scramble(x)[i] XOR x[i] =
\* scramble(y)[i] XOR y[i] for every i; output byte i is the same for two
\* inputs that agree in byte i; and scramble(x ++ y) starts with scramble(x)
C26_KeystreamIndependent ==
    fnPc = "scrambled" =>
        LET x == fnIn.x
            y == fnIn.y
            common == IF Len(x) < Len(y) THEN Len(x) ELSE Len(y)
        IN  /\ Len(fnOut.x) = Len(x) /\ Len(fnOut.y) = Len(y)
            /\ Len(x) = Len(y) =>
                  \A i \in 1..Len(x) :
                      XorBits(fnOut.x[i], x[i], 8) = XorBits(fnOut.y[i], y[i], 8)
            /\ \A i \in 1..common : x[i] = y[i] => fnOut.x[i] = fnOut.y[i]
            /\ SubSeq(fnOut.xy, 1, Len(x)) = fnOut.x

\* two inputs of MaxLen bytes that differ in every byte have been scrambled
C26_Witness ==
    /\ fnPc = "scrambled"
    /\ Len(fnIn.x) = MaxLen /\ Len(fnIn.y) = MaxLen
    /\ \A i \in 1..MaxLen : fnIn.x[i] # fnIn.y[i] /\ fnOut.x[i] # fnOut.y[i]
    /\ Len(fnOut.xy) = 2 * MaxLen

-----------------------------------------------------------------------------
(* SpecLoop: the while loop of applyShiftRegisterScrambling, one iteration at
   a time, on the buffer scramble hands it.  fnOut holds the loop's locals
   (s) and the number of iterations made so far (n). *)

LoopInputs == {<<>>, <<255>>, <<1, 128, 0>>}

InitLoop ==
    /\ StoreInit /\ release = NoRelease
    /\ fnIn \in LoopInputs
    /\ fnOut = [s |-> scrambleLoopInit(SetBytes(Zeros(PREPEND_SIZE + Len(fnIn)), fnIn,
                                                PREPEND_SIZE)),
                n |-> 0]
    /\ fnPc = "head"

\* the loop condition holds: one iteration
Iterate ==
    /\ fnPc = "head"
    /\ fnOut.s.it < Len(fnOut.s.result)
    /\ fnOut' = [s |-> scrambleIteration(fnOut.s), n |-> fnOut.n + 1]
    /\ UNCHANGED <<fnIn, fnPc, storeVars>>

\* the loop condition fails: return result
LoopExit ==
    /\ fnPc = "head"
    /\ ~(fnOut.s.it < Len(fnOut.s.result))
    /\ fnPc' = "returned"
    /\ UNCHANGED <<fnIn, fnOut, storeVars>>

NextLoop == Iterate \/ LoopExit

SpecLoop == InitLoop /\ [][NextLoop]_vars

\* C27: at the head of every iteration t, u and v are within 0..0xFFFF, x is
\* 0 or 1, acc is within 0..255 and nacc within 0..7 (so nacc + 1 never
\* reaches 256); after n iterations the cursor is at n div 8, one byte further
\* every 8 iterations, and the loop ends with the cursor at 0x720 + len(input)
C27_LoopInvariant ==
    fnPc \in {"head", "returned"} =>
        LET s == fnOut.s IN
        /\ s.t \in 0..65535 /\ s.u \in 0..65535 /\ s.v \in 0..65535
        /\ s.x \in {0, 1}
        /\ s.acc \in 0..255
        /\ s.nacc \in 0..7
        /\ s.nacc = fnOut.n % 8
        /\ s.it = fnOut.n \div 8
        /\ s.it <= 1824 + Len(fnIn)
        /\ fnPc = "returned" => s.it = 1824 + Len(fnIn)

\* the loop is at its head after 16 iterations on an input of 3 bytes: the
\* cursor has advanced twice and the accumulator has just been used
C27_Witness ==
    /\ fnPc = "head" /\ Len(fnIn) = 3
    /\ fnOut.n = 16
    /\ fnOut.s.it = 2 /\ fnOut.s.nacc = 0
    /\ fnOut.s.result[1] # 0

-----------------------------------------------------------------------------
(* Builds in flight, step statuses and output fields of the build store *)

\* the calls of buildFirmware that have passed the guard and not yet returned
InFlight == {c \in Calls : calls[c].pc \notin {"idle", "done"}}

\* C28 as stated: at most one build is in flight, and isBuilding is true
\* while one is: a call of buildFirmware that finds a build in flight returns
\* at the guard
C28_AtMostOneBuildInFlight ==
    /\ Cardinality(InFlight) <= 1
    /\ InFlight # {} => isBuilding

\* completed steps, then at most one step in progress or in error, then
\* pending steps
StepsShape(steps) ==
    \E k \in 0..Len(steps) :
        /\ \A i \in 1..k : steps[i].status = "completed"
        /\ k < Len(steps) => steps[k + 1].status \in {"in_progress", "error", "pending"}
        /\ \A i \in (k + 2)..Len(steps) : steps[i].status = "pending"

\* C29 as stated: while a build is in flight and after it there are seven
\* steps whose statuses are completed steps, then at most one step in progress
\* or in error, then pending steps, and buildProgress is one of 0, 14, 28, 42,
\* 56, 70, 85, 100 and as large as the number of completed steps requires
C29_StepStatusesInOrder ==
    (\E c \in Calls : calls[c].pc # "idle") =>
        /\ Len(buildSteps) = 7
        /\ StepsShape(buildSteps)
        /\ buildProgress \in {0, 14, 28, 42, 56, 70, 85, 100}

\* C30 as stated: the four output fields always describe one and the same
\* build: either none is set, or firmwareData is the stream one call merged
\* and the checksum, the download URL and the file name are those of that
\* stream; and a call that has failed has written none of them
C30_OutputsOfOneBuild ==
    /\ \/ /\ firmwareData = Null
          /\ firmwareChecksum = ""
          /\ firmwareDownloadUrl = ""
          /\ firmwareFilename = ""
       \/ \E c \in Calls :
             /\ calls[c].mergeResult # Null
             /\ Uint8Array(calls[c].mergeResult.data) = firmwareData
             /\ calculateSHA256(calls[c].mergeResult.data) = firmwareChecksum
             /\ createDownloadURL(calls[c].mergeResult.data) = firmwareDownloadUrl
             /\ \E p \in Platforms :
                   <<"picoboot_gekkoboot_", toLowerCase(p), ".uf2">> = firmwareFilename
    /\ \A c \in Calls : calls[c].raised # Null => ~calls[c].wrote

-----------------------------------------------------------------------------
(* The cache (src/src/lib/github/rate-limit.ts 506-694): get, set and remove
   are asynchronous; each waits for the database to open and then for its
   request, and other calls and the clock advance while it waits.  Here
   fnIn is Date.now(), and fnOut holds the object store (db), the calls made
   so far with their position (ops), and nothing else. *)

\* last value of the clock in SpecCache
MaxNow == 2
\* most calls of get, set and remove made from outside in SpecCache
MaxOps == 3

DEFAULT_TTL == 60 * 60 * 1000

CacheKeys == {"firmware", "payload"}
CacheData == {"old", "new"}
CacheTTLs == {0, DEFAULT_TTL}

\* no entry under the key (undefined), and an entry
NoEntry == <<>>
Entry(e) == <<e>>

CacheOp(kind, key, data, ttl) ==
    [kind |-> kind, key |-> key, data |-> data, ttl |-> ttl, pc |-> "open",
     entry |-> NoEntry, value |-> Null, at |-> 0]

\* the entry set builds from Date.now()
cacheEntry(key, data, type, ttl, now) ==
    [key |-> key, type |-> type, data |-> data, cachedAt |-> now,
     expiresAt |-> now + ttl]

\* get that hands out whatever is stored
getResolvedStored(entry, now) ==
    IF entry = NoEntry THEN Null ELSE <<entry[1].data>>

\* what get resolves with in request.onsuccess: null, or <<data>>
getResolved(entry, now) ==
    IF entry = NoEntry THEN Null
    ELSE IF now > entry[1].expiresAt THEN Null
    ELSE <<entry[1].data>>

InitCache ==
    /\ StoreInit /\ release = NoRelease
    /\ fnIn = 0
    /\ fnOut = [db |-> [k \in CacheKeys |-> NoEntry], ops |-> <<>>, called |-> 0]
    /\ fnPc = "cache"

\* time passes
Tick ==
    /\ fnPc = "cache"
    /\ fnIn < MaxNow
    /\ fnIn' = fnIn + 1
    /\ UNCHANGED <<fnOut, fnPc, storeVars>>

CallOp(op) ==
    /\ fnPc = "cache"
    /\ fnOut.called < MaxOps
    /\ fnOut' = [fnOut EXCEPT !.ops = Append(@, op), !.called = @ + 1]
    /\ UNCHANGED <<fnIn, fnPc, storeVars>>

\* set is called and waits for openDB
CallSet == \E k \in CacheKeys, d \in CacheData, ttl \in CacheTTLs : CallOp(CacheOp("set", k, d, ttl))

\* get is called and waits for openDB
CallGet == \E k \in CacheKeys : CallOp(CacheOp("get", k, Null, 0))

\* remove is called and waits for openDB
CallRemove == \E k \in CacheKeys : CallOp(CacheOp("remove", k, Null, 0))

\* set reads the clock, builds the entry and puts it
SetPut ==
    /\ fnPc = "cache"
    /\ \E i \in 1..Len(fnOut.ops) :
          LET op == fnOut.ops[i] IN
          /\ op.kind = "set" /\ op.pc = "open"
          /\ fnOut' = [fnOut EXCEPT
                 !.db[op.key] = Entry(cacheEntry(op.key, op.data, "firmware", op.ttl, fnIn)),
                 !.ops[i].pc = "done", !.ops[i].at = fnIn]
    /\ UNCHANGED <<fnIn, fnPc, storeVars>>

\* store.get(key) reads the entry
GetRequest ==
    /\ fnPc = "cache"
    /\ \E i \in 1..Len(fnOut.ops) :
          LET op == fnOut.ops[i] IN
          /\ op.kind = "get" /\ op.pc = "open"
          /\ fnOut' = [fnOut EXCEPT !.ops[i].entry = fnOut.db[op.key],
                                    !.ops[i].pc = "requested"]
    /\ UNCHANGED <<fnIn, fnPc, storeVars>>

\* request.onsuccess of get: resolves, and starts remove(key) for an expired entry
GetSuccess ==
    /\ fnPc = "cache"
    /\ \E i \in 1..Len(fnOut.ops) :
          LET op == fnOut.ops[i]
              expired == op.entry # NoEntry /\ fnIn > op.entry[1].expiresAt
              resolved == [fnOut.ops EXCEPT ![i].value = getResolved(op.entry, fnIn),
                                            ![i].at = fnIn, ![i].pc = "done"]
          IN
          /\ op.kind = "get" /\ op.pc = "requested"
          /\ fnOut' = [fnOut EXCEPT !.ops =
                 IF expired THEN Append(resolved, CacheOp("remove", op.key, Null, 0))
                 ELSE resolved]
    /\ UNCHANGED <<fnIn, fnPc, storeVars>>

\* store.delete(key)
RemoveDelete ==
    /\ fnPc = "cache"
    /\ \E i \in 1..Len(fnOut.ops) :
          LET op == fnOut.ops[i] IN
          /\ op.kind = "remove" /\ op.pc = "open"
          /\ fnOut' = [fnOut EXCEPT !.db[op.key] = NoEntry, !.ops[i].pc = "done"]
    /\ UNCHANGED <<fnIn, fnPc, storeVars>>

NextCache ==
    \/ Tick
    \/ CallSet
    \/ CallGet
    \/ CallRemove
    \/ SetPut
    \/ GetRequest
    \/ GetSuccess
    \/ RemoveDelete

SpecCache == InitCache /\ [][NextCache]_vars

\* the calls of get that have resolved
ResolvedGets ==
    {i \in 1..Len(fnOut.ops) : fnOut.ops[i].kind = "get" /\ fnOut.ops[i].pc = "done"}

\* C23: every stored entry expires at cachedAt + ttl of the set that put it;
\* a get that resolves with data read an entry holding that data and resolved
\* at a time not after the entry's expiresAt; a get that read an entry and
\* resolved after its expiresAt resolves with null.
C23_NeverServesExpired ==
    fnPc = "cache" =>
        /\ \A k \in CacheKeys :
              fnOut.db[k] # NoEntry =>
                  \E j \in 1..Len(fnOut.ops) :
                      /\ fnOut.ops[j].kind = "set" /\ fnOut.ops[j].pc = "done"
                      /\ fnOut.ops[j].key = k
                      /\ fnOut.db[k][1].data = fnOut.ops[j].data
                      /\ fnOut.db[k][1].cachedAt = fnOut.ops[j].at
                      /\ fnOut.db[k][1].expiresAt = fnOut.ops[j].at + fnOut.ops[j].ttl
        /\ \A i \in ResolvedGets :
              LET op == fnOut.ops[i] IN
              /\ op.value # Null =>
                    /\ op.entry # NoEntry
                    /\ op.value = <<op.entry[1].data>>
                    /\ op.at <= op.entry[1].expiresAt
              /\ (op.entry # NoEntry /\ op.at > op.entry[1].expiresAt) => op.value = Null

\* a get has resolved with null after the expiry of an entry that is still stored
C23_Witness ==
    /\ fnPc = "cache"
    /\ \E i \in ResolvedGets :
          LET op == fnOut.ops[i] IN
          /\ op.entry # NoEntry
          /\ op.at > op.entry[1].expiresAt
          /\ op.value = Null
          /\ fnOut.db[op.key] = op.entry

=============================================================================
